---- MODULE Spec2Model ----
(***************************************************************************)
(* A model of the pilka render engine (PilkaRender in renderer.rs) as it   *)
(* is driven by the event loop of main.rs.                                 *)
(*                                                                         *)
(* The control thread is one sequential process: `pc` is its position.     *)
(* A handler is one action, except where it blocks on the device           *)
(* (device_wait_idle, queue_wait_idle): the blocking call is the guard of  *)
(* the action that continues the handler, so that the GPU can make         *)
(* progress in between.  The GPU is the environment: it executes the       *)
(* submitted batches (GpuExecute) under the rules of binary semaphores and *)
(* of submission order within one queue.                                   *)
(***************************************************************************)
EXTENDS Integers, Sequences, FiniteSets, TLC

(***************************************************************************)
(* Bounds of the model.                                                    *)
(***************************************************************************)
\* render() calls that draw (the frame counter is capped in the guard)
MaxFrame == 1
\* swapchain recreations (stale results and window resizes the environment delivers)
MaxRecreate == 2
\* the largest number of images a swapchain is created with
MaxImages == 3
\* pipeline objects built (pushes and rebuilds)
MaxBuilds == 3
\* capture_frame() calls
MaxCaptures == 2
\* update_fft_texture() calls of a caller other than main
MaxUploads == 3

ImageCounts == (MaxImages - 1)..MaxImages
\* the window's size at start, and the size the user can change it to and back
InitialExtent == <<4, 2>>
Extents == {InitialExtent, <<2, 3>>}
\* the extents of the window while frames are captured
CaptureExtents == Extents \cup {<<4, 4>>}

VARIABLES
    pc,                 \* position of the control thread
    ctx,                \* caller of the resize() the thread is blocked in
    paused,             \* PilkaRender::paused
    push_constant,      \* PilkaRender::push_constant (the frame counter)
    surface,            \* the window surface's current resolution
    extent,             \* PilkaRender::extent
    viewports,          \* PilkaRender::viewports
    scissors,           \* PilkaRender::scissors
    swapchain,          \* PilkaRender::swapchain
    framebuffers,       \* PilkaRender::framebuffers
    textures,           \* the five screen-sized VkTexture fields
    descriptor_sets,    \* image infos bound in the graphics descriptor set 0
    descriptor_sets_compute, \* image infos bound in the compute descriptor set 0
    pipelines,          \* PilkaRender::pipelines
    shader_set,         \* PilkaRender::shader_set
    builds,             \* pipeline objects created so far
    subs,               \* batches submitted to the queues and not yet finished
    signaled,           \* semaphores, and fences, in the signaled state
    pending,            \* semaphores with a submitted, not yet waited-on signal
    layout,             \* the layout every image has after the transitions
                        \* submitted so far, and whether each of them named
                        \* the layout its image had (history)
    rec,                \* history: the last render() call
    reb,                \* history: the last rebuild_pipeline() call
    registered,         \* history: the <<path, index>> pairs of the successful
                        \* pushes, and whether a push has failed
    device,             \* what the device reports: swapchain format, blit
                        \* support of linear images, row pitch alignment
    screenshot_ctx,     \* PilkaRender::screenshot_ctx
    memory,             \* the device memory allocated for the screenshot context
    twin,               \* history: the screenshot context and memory the same
                        \* calls give on a device that blits into linear images
    cap,                \* history: the last capture_frame() call
    fft,                \* PilkaRender::fft_texture, and the last
                        \* update_fft_texture() call
    dropped,            \* history: the destroy calls of the teardown, in order
    made_from,          \* history: the shader modules of the last
                        \* make_pipeline_from_shaders() call
    command_pool,       \* PilkaRender::command_pool: the number of its
                        \* command buffers
    video,              \* main's video_recording, the capture_frame() main
                        \* waits for, and the events sent to the recorder
                        \* since the last Start (history)
    screenshots         \* the save_screenshot threads that have not written
                        \* their image yet, each with the memory and the
                        \* length of the slice it reads

vars == <<pc, ctx, paused, push_constant, surface, extent, viewports,
          scissors, swapchain, framebuffers, textures, descriptor_sets,
          descriptor_sets_compute, pipelines, shader_set, builds, subs,
          signaled, pending, layout, rec, reb, registered, device, screenshot_ctx,
          memory, twin, cap, fft, dropped, made_from, command_pool, video,
          screenshots>>

engineVars == <<extent, viewports, scissors, swapchain, framebuffers, textures,
                descriptor_sets, descriptor_sets_compute>>
pipelineVars == <<pipelines, shader_set, builds, reb, registered>>
gpuVars == <<subs, signaled, pending, layout>>
captureVars == <<device, screenshot_ctx, memory, twin, cap, fft, dropped, made_from,
                 command_pool>>

Min(a, b) == IF a < b THEN a ELSE b

\* `let mut video_recording = false`: nothing is recorded, no capture_frame()
\* is awaited, no size was announced and no frame was sent
NoVideo == [recording |-> FALSE, wants |-> "none", start |-> <<0, 0>>,
            sent |-> <<0, 0>>]

\* RecordEvent::Finish
Finish(v) == [NoVideo EXCEPT !.wants = v.wants]

\* MainEventsCleared after `pilka.render().unwrap()`: the frame is captured
\* for the recorder when video_recording, else the iteration ends
MainAfterRender == IF video.recording THEN "record" ELSE "new_events"

\* const FFT_SIZE: the width of the FFT texture, in floats
FFT_SIZE == 2048

(***************************************************************************)
(* Handles.                                                                *)
(***************************************************************************)
TexOrder == <<"previous_frame", "generic_texture", "dummy_texture",
              "float_texture1", "float_texture2">>
TexNames == {TexOrder[k] : k \in DOMAIN TexOrder}

\* the images other than the swapchain's that layout transitions are recorded
\* for: the screen-sized textures, the FFT texture, the capture images
LayoutNames == TexNames \cup {"fft_texture", "image", "blit_image"}

\* one set_image_layout call: swapchain image i when name is "present", else
\* the image of that name
Transition(name, i, old, new) == [name |-> name, i |-> i, old |-> old, new |-> new]

\* one set_image_layout call: the image takes the new layout; `ok` records
\* that the old layout named is UNDEFINED or the layout the image has
set_image_layout(lay, t) ==
    LET swap == t.name = "present"
        known == ~swap \/ t.i + 1 \in DOMAIN lay.present
        actual == IF ~known THEN "UNDEFINED"
                  ELSE IF swap THEN lay.present[t.i + 1]
                  ELSE lay.image[t.name]
    IN  [ok |-> lay.ok /\ known /\ t.old \in {"UNDEFINED", actual},
         present |-> IF swap /\ known
                     THEN [lay.present EXCEPT ![t.i + 1] = t.new]
                     ELSE lay.present,
         image |-> IF swap THEN lay.image
                   ELSE [lay.image EXCEPT ![t.name] = t.new]]

RECURSIVE set_image_layouts(_, _)
\* the set_image_layout calls of the submitted command buffers, in submission
\* order
set_image_layouts(lay, ts) ==
    IF ts = <<>> THEN lay
    ELSE CHOOSE l2 \in {set_image_layouts(l1, Tail(ts)) :
                            l1 \in {set_image_layout(lay, Head(ts))}} : TRUE

TexIndex(t) == CHOOSE k \in DOMAIN TexOrder : TexOrder[k] = t

TexFormat(t) ==
    IF t \in {"float_texture1", "float_texture2"} THEN "R32_SFLOAT"
    ELSE "R8G8B8A8_UNORM"

present_complete_semaphore == <<"present_complete", 0>>
rendering_complete_semaphore == <<"rendering_complete", 0>>
ComputeSemaphore(obj) == <<"compute", obj>>

ImageRef(gen, i) == [type |-> "image", name |-> "", gen |-> gen, idx |-> i]
FramebufferRef(fb) == [type |-> "framebuffer", name |-> "", gen |-> fb.gen, idx |-> fb.idx]
TextureRef(t, gen) == [type |-> "texture", name |-> t, gen |-> gen, idx |-> 0]
PipelineRef(p) == [type |-> "pipeline", name |-> p.kind, gen |-> p.obj, idx |-> 0]

\* a handle is live when it was created and not destroyed since
Live(r) ==
    CASE r.type = "image" -> r.gen = swapchain.gen /\ r.idx < swapchain.n
      [] r.type = "framebuffer" ->
            \E i \in DOMAIN framebuffers :
                /\ framebuffers[i].gen = r.gen
                /\ framebuffers[i].idx = r.idx
                /\ framebuffers[i].live
      [] r.type = "texture" -> textures[r.name].gen = r.gen /\ textures[r.name].live
      [] r.type = "pipeline" ->
            \E i \in DOMAIN pipelines : pipelines[i].obj = r.gen

\* screen_sized_texture(format): a texture of the extent, with the usage
\* flags of the closure
NewTexture(t, gen, ext) ==
    [gen |-> gen, live |-> TRUE, width |-> ext[1], height |-> ext[2],
     format |-> TexFormat(t),
     usage_flags |-> {"TRANSFER_DST", "SAMPLED", "STORAGE"}]

Viewport(ext) == [x |-> 0, y |-> ext[2], width |-> ext[1], height |-> 0 - ext[2]]
Scissor(ext) == [x |-> 0, y |-> 0, width |-> ext[1], height |-> ext[2]]

(***************************************************************************)
(* Batches.  A batch is on one queue, waits on semaphores, signals         *)
(* semaphores, holds commands and references handles.                      *)
(***************************************************************************)
Batch(kind, queue, frame, waits, signals, cmds, refs) ==
    [kind |-> kind, queue |-> queue, frame |-> frame, waits |-> waits,
     signals |-> signals, cmds |-> cmds, refs |-> refs]

\* set_image_layout(UNDEFINED -> ...) recorded alone and submitted with no semaphore
TransitionBatch(refs) ==
    Batch("transition", "graphics", 0 - 1, {}, {}, <<"set_image_layout">>, refs)

\* vkQueueSubmit / vkQueuePresentKHR: the batch joins its queue.  A binary
\* semaphore wait needs a signal that was submitted before and that no other
\* wait has taken; a wait without one is invalid usage, whose outcome is the
\* driver's: it drops the wait ("ignore") or it keeps waiting ("block").
QueueSubmit(acc, batch, ub) ==
    LET miss == batch.waits \ acc.pending
    IN  [subs |-> Append(acc.subs,
                    [batch EXCEPT !.waits = IF ub = "ignore" THEN batch.waits \ miss
                                            ELSE batch.waits]),
         pending |-> (acc.pending \ batch.waits) \cup batch.signals,
         unmatched |-> acc.unmatched \cup
                        {[kind |-> batch.kind, sem |-> s] : s \in miss}]

\* VkCommandPool::record_submit_commandbuffer: records with the closure and submits
record_submit_commandbuffer(acc, batch, ub) == QueueSubmit(acc, batch, ub)

DeviceIdle == subs = <<>>
QueueIdle(q) == \A i \in DOMAIN subs : subs[i].queue # q

(***************************************************************************)
(* The screenshot context: formats, image layouts in memory, VkImage,      *)
(* ScreenshotCtx::init.                                                    *)
(***************************************************************************)
\* the B8G8R8A8 formats ScreenshotCtx::init names, and one format it does not
BGRAFormats ==
    {"B8G8R8A8_SRGB", "B8G8R8A8_UNORM", "B8G8R8A8_UINT", "B8G8R8A8_SINT",
     "B8G8R8A8_SNORM", "B8G8R8A8_USCALED", "B8G8R8A8_SSCALED"}
SrcFormats == BGRAFormats \cup {"R8G8B8A8_UNORM"}

\* row pitch alignments of linear images: 1 packs the rows, 16 pads them
PitchAlignments == {1, 16}

\* the tilings of an image
Tilings == {"LINEAR", "OPTIMAL"}

\* the formats every combination of format features is tried with: one with a
\* 4-channel and one with a 3-channel destination format
FeatureFormats == {"B8G8R8A8_SRGB", "B8G8R8A8_UNORM"}

\* what the device reports: swapchain.format, the BLIT_DST feature of that
\* format's linear and optimal tiling (what PilkaRender::new asks for), the
\* tilings with which the destination format of the capture is a blit
\* destination, and the row pitch alignment
Devices ==
    {d \in [format : SrcFormats, blit_linear : BOOLEAN, blit_optimal : BOOLEAN,
            dst_blit : SUBSET Tilings, pitch : PitchAlignments] :
        \/ d.format \in FeatureFormats
        \/ d.blit_linear /\ d.blit_optimal /\ d.dst_blit = Tilings}

\* a device that reports the usual swapchain format and packs the rows
ReferenceDevice ==
    [format |-> "B8G8R8A8_SRGB", blit_linear |-> TRUE, blit_optimal |-> TRUE,
     dst_blit |-> Tilings, pitch |-> 1]

\* PilkaRender::new: need2steps is set when swapchain.format is a blit
\* destination with optimal tiling and not with linear tiling
need2steps(dev) == ~dev.blit_linear /\ dev.blit_optimal

\* the channels of a format, one byte each, in memory order
Channels(f) ==
    IF f = "R8G8B8_UNORM" THEN <<"R", "G", "B">>
    ELSE IF f \in BGRAFormats THEN <<"B", "G", "R", "A">>
    ELSE <<"R", "G", "B", "A">>

\* bytes of one texel
TexelBytes(f) == Len(Channels(f))

\* the `match src_format` of ScreenshotCtx::init
dst_format(src_format) ==
    CASE src_format = "B8G8R8A8_SRGB" -> "R8G8B8A8_SRGB"
      [] src_format = "B8G8R8A8_UNORM" -> "R8G8B8_UNORM"
      [] src_format = "B8G8R8A8_UINT" -> "R8G8B8A8_UINT"
      [] src_format = "B8G8R8A8_SINT" -> "R8G8B8A8_SINT"
      [] src_format = "B8G8R8A8_SNORM" -> "R8G8B8A8_SNORM"
      [] src_format = "B8G8R8A8_USCALED" -> "R8G8B8A8_USCALED"
      [] src_format = "B8G8R8A8_SSCALED" -> "R8G8B8A8_SSCALED"
      [] OTHER -> "R8G8B8_UNORM"

\* pilka_util::return_aligned: the value rounded up to a multiple of the alignment
return_aligned(value, alignment) ==
    ((value + alignment - 1) \div alignment) * alignment

\* get_image_subresource_layout of a linear image: rows of texels, each row
\* padded to the device's row pitch alignment
SubresourceLayout(dev, f, e) ==
    LET row_pitch == return_aligned(e[1] * TexelBytes(f), dev.pitch)
    IN  [row_pitch |-> row_pitch, size |-> row_pitch * e[2]]

\* get_image_memory_requirements: a linear image needs its rows with their
\* padding, an optimal image its texels
MemoryRequirements(dev, tiling, f, e) ==
    IF tiling = "LINEAR" THEN SubresourceLayout(dev, f, e).size
    ELSE e[1] * e[2] * TexelBytes(f)

\* the memory of the context: the next handle, the size of every live
\* allocation, the mapped allocations
NoMemory == [next |-> 1, live |-> [m \in {} |-> 0], mapped |-> {}]

\* alloc_memory: a new allocation of the required size
alloc_memory(mem, size) ==
    [mem EXCEPT !.next = @ + 1,
                !.live = [m \in DOMAIN @ \cup {mem.next} |->
                            IF m = mem.next THEN size ELSE @[m]]]

\* vkFreeMemory: the allocation is gone, and its mapping with it
free_memory(mem, m) ==
    [mem EXCEPT !.live = [k \in DOMAIN @ \ {m} |-> @[k]],
                !.mapped = @ \ {m}]

\* vkCreateImage: a new image handle, bound to no memory yet
create_image(mem, dev, tiling, f, e) ==
    [img |-> [image |-> mem.next, tiling |-> tiling, extent |-> e,
              memory_requirements |-> MemoryRequirements(dev, tiling, f, e),
              bound |-> 0, memory |-> 0],
     mem |-> [mem EXCEPT !.next = @ + 1]]

\* VkImage::new: create the image, allocate what it requires, bind
VkImage_new(mem, dev, tiling, f, e) ==
    LET c == create_image(mem, dev, tiling, f, e)
        m == c.mem.next
    IN  [img |-> [c.img EXCEPT !.memory = m, !.bound = m],
         mem |-> alloc_memory(c.mem, c.img.memory_requirements)]

\* the image the host reads: blit_image when there is one, image otherwise
HostImage(sc) == IF sc.blit_image # <<>> THEN sc.blit_image[1] ELSE sc.image

\* the fence of the screenshot context
screenshot_fence == <<"fence", 0>>

\* ScreenshotCtx::init: the extent with an even height, the destination
\* format, the linear host-visible image, with need2steps an optimal
\* device-local image too, and the mapping of the host-visible memory
ScreenshotCtx_init(dev, ext, src_format, two) ==
    LET e == <<ext[1], return_aligned(ext[2], 2)>>
        f == dst_format(src_format)
        linear == VkImage_new(NoMemory, dev, "LINEAR", f, e)
        optimal == VkImage_new(linear.mem, dev, "OPTIMAL", f, e)
        mem == IF two THEN optimal.mem ELSE linear.mem
    IN  [sc |-> [fence |-> screenshot_fence,
                 commbuf |-> <<>>,
                 image |-> IF two THEN optimal.img ELSE linear.img,
                 blit_image |-> IF two THEN <<linear.img>> ELSE <<>>,
                 extent |-> e,
                 format |-> f,
                 data |-> [memory |-> linear.img.memory,
                           len |-> linear.img.memory_requirements]],
         mem |-> [mem EXCEPT !.mapped = {linear.img.memory}]]

\* texels nothing is known of
Undefined ==
    [valid |-> FALSE, frame |-> "none", from |-> <<0, 0>>, to |-> <<0, 0>>,
     channels |-> <<>>]

\* no result of capture_frame() yet
NoResult ==
    [ret |-> "none", w |-> 0, h |-> 0, len |-> 0, row_pitch |-> 0,
     visible |-> Undefined]

\* no capture_frame() call yet
NoCapture ==
    [called |-> FALSE, n |-> 0, src |-> "none", requested |-> <<0, 0>>,
     previous |-> <<0, 0>>, before |-> <<0, 0>>, realloc |-> FALSE, remapped |-> FALSE,
     required |-> 0, mapping |-> 0, result |-> NoResult, twin |-> NoResult,
     completed |-> FALSE, fence |-> FALSE, index |-> 0, from |-> "setup"]

(***************************************************************************)
(* The FFT texture: FftTexture::new.                                       *)
(***************************************************************************)
\* the fence of the FFT texture
fft_fence == <<"fence", 1>>

\* the spectrum buffers a caller may pass: of FFT_SIZE floats, one float
\* less, or one more
FftBuffers ==
    [len : {FFT_SIZE - 1, FFT_SIZE, FFT_SIZE + 1},
     id : {"spectrum_a", "spectrum_b"}]

\* FftTexture::new: the staging memory mapped as FFT_SIZE floats, a command
\* buffer and a fence created signaled; `calls`, `data`, `before`, `busy`
\* and `ret` record the last update() call
FftTexture_new ==
    [mapped_memory |-> [len |-> FFT_SIZE, id |-> "none"],
     command_buffer |-> <<>>,
     fence |-> fft_fence,
     calls |-> 0, data |-> [len |-> 0, id |-> "none"],
     before |-> "none", busy |-> FALSE, ret |-> "none"]

\* no make_pipeline_from_shaders() call yet
NoModules ==
    [called |-> FALSE, kind |-> "none", at |-> "none", created |-> <<>>,
     destroyed |-> <<>>, pipelines |-> <<>>, builds |-> 0]

(***************************************************************************)
(* Construction: PilkaRender::new.                                         *)
(***************************************************************************)
\* VkSwapchain::create_framebuffers: one framebuffer per image view
create_framebuffers(sc) ==
    [i \in 1..sc.n |-> [gen |-> sc.gen, idx |-> i - 1, live |-> TRUE]]

NoRender ==
    [called |-> FALSE, frame0 |-> 0, paused |-> FALSE, acq |-> "none", idx |-> 0,
     submitted |-> {}, unmatched |-> {}, graphics |-> 0, computeCmds |-> <<>>,
     computeSignals |-> {}, resizes |-> 0, resizeFailed |-> FALSE,
     pres |-> "none", ret |-> "none"]

NoRebuild ==
    [called |-> FALSE, index |-> 0, res |-> "none", before |-> <<>>,
     beforeAll |-> <<>>, tableBefore |-> <<>>, ret |-> "none"]

new(dev, counts) ==
    /\ pc = "setup"
    /\ ctx = "none"
    /\ paused = FALSE
    /\ video = NoVideo
    /\ screenshots = {}
    /\ push_constant = [frame |-> 0]
    /\ surface = InitialExtent
    /\ extent = surface
    /\ viewports = Viewport(surface)
    /\ scissors = Scissor(surface)
    /\ \E n \in counts : swapchain = [gen |-> 0, n |-> n, extent |-> surface]
    /\ framebuffers = create_framebuffers(swapchain)
    /\ textures = [t \in TexNames |-> NewTexture(t, 0, surface)]
    /\ descriptor_sets = [t \in TexNames |-> 0]
    /\ descriptor_sets_compute = [t \in TexNames |-> 0]
    /\ pipelines = <<>>
    /\ shader_set = <<>>
    /\ builds = 0
    /\ subs = [i \in 1..swapchain.n |-> TransitionBatch({ImageRef(0, i - 1)})]
              \o <<TransitionBatch({TextureRef(t, 0) : t \in TexNames})>>
    /\ signaled = {fft_fence}
    /\ pending = {}
    /\ layout = set_image_layouts(
                    [present |-> [i \in 1..swapchain.n |-> "UNDEFINED"],
                     image |-> [t \in LayoutNames |-> "UNDEFINED"], ok |-> TRUE],
                    [i \in 1..swapchain.n |->
                        Transition("present", i - 1, "UNDEFINED", "PRESENT_SRC_KHR")]
                    \o [k \in 1..6 |->
                        Transition((<<"fft_texture">> \o TexOrder)[k], 0,
                                   "UNDEFINED", "GENERAL")])
    /\ fft = FftTexture_new
    /\ dropped = <<>>
    /\ made_from = NoModules
    /\ command_pool = [command_buffers |-> swapchain.n]
    /\ rec = NoRender
    /\ reb = NoRebuild
    /\ registered = [paths |-> {}, failed |-> FALSE]
    /\ device = dev
    /\ LET c == ScreenshotCtx_init(dev, InitialExtent, dev.format, need2steps(dev))
       IN  screenshot_ctx = c.sc /\ memory = c.mem
    /\ twin = ScreenshotCtx_init(dev, InitialExtent, dev.format, FALSE)
    /\ cap = NoCapture

\* the engine on the reference device
Init == new(ReferenceDevice, ImageCounts)

\* the engine on any device, with the fewest images
InitCapture == \E dev \in Devices : new(dev, {MaxImages - 1})

(***************************************************************************)
(* The GPU.                                                                *)
(***************************************************************************)
Remove(s, i) == [j \in 1..(Len(s) - 1) |-> IF j < i THEN s[j] ELSE s[j + 1]]

\* a batch may execute once the semaphores it waits on are signaled
CanExecute(i) == subs[i].waits \subseteq signaled

\* a batch executes after the earlier batches of its queue
Executable(i) ==
    /\ CanExecute(i)
    /\ \A j \in 1..(i - 1) : subs[j].queue # subs[i].queue

\* the batch unsignals the semaphores it waited on and signals its own
GpuExecute(i) ==
    /\ pc \notin {"panicked", "exit"}
    /\ Executable(i)
    /\ signaled' = (signaled \ subs[i].waits) \cup subs[i].signals
    /\ subs' = Remove(subs, i)
    /\ UNCHANGED <<video, screenshots,
                   captureVars, pc, ctx, paused, push_constant, surface, engineVars,
                   pipelineVars, pending, layout, rec>>

(***************************************************************************)
(* resize().  `fail` names the call that fails, if one does; `n2` is the   *)
(* number of images the driver gives the recreated swapchain.              *)
(***************************************************************************)
NoFail == [at |-> "none", i |-> 0]
ResizeFailures(n2) ==
    {NoFail, [at |-> "swapchain", i |-> 0]}
    \cup {[at |-> "framebuffer", i |-> i] : i \in 1..Min(Len(framebuffers), n2)}
    \cup {[at |-> "texture", i |-> k] : k \in DOMAIN TexOrder}

\* VkSwapchain::recreate_swapchain: a new swapchain with new images and views
\* for the given extent; the old images and views are gone
recreate_swapchain(sc, ext, n2) == [gen |-> sc.gen + 1, n |-> n2, extent |-> ext]

\* a write that reaches the first binding only
DescriptorWriteFirstBinding(old, tex) ==
    [t \in TexNames |-> IF TexIndex(t) = 1 THEN tex[t].gen ELSE old[t]]

\* update_descriptor_sets with five image infos from binding 0, array element 0:
\* the five bindings hold one descriptor each, of one type and stage, so the
\* write runs over into the bindings that follow
DescriptorWrite(old, tex) == [t \in TexNames |-> tex[t].gen]

\* a resize that creates the texture anew with the extent it had
VkTexture_resizeSameSize(t, ext, failed) ==
    IF failed THEN [textures[t] EXCEPT !.live = FALSE]
    ELSE [textures[t] EXCEPT !.gen = @ + 1]

\* VkTexture::resize of the k-th texture: destroy, then create anew with the
\* new extent and self.format and self.usage_flags; a failing creation
\* leaves the destroyed handles in the field
VkTexture_resize(t, ext, failed) ==
    IF failed THEN [textures[t] EXCEPT !.live = FALSE]
    ELSE [gen |-> textures[t].gen + 1, live |-> TRUE,
          width |-> ext[1], height |-> ext[2],
          format |-> textures[t].format,
          usage_flags |-> textures[t].usage_flags]

\* a resize() that does not wait
device_wait_idle_skipped == TRUE

\* device_wait_idle() at the start of resize(): returns once no batch is left
device_wait_idle == DeviceIdle

\* the state resize() leaves, computed from the current state
resize(fail, n2) ==
    LET ext == surface
        scOk == fail.at # "swapchain"
        sc2 == IF scOk THEN recreate_swapchain(swapchain, ext, n2) ELSE swapchain
        \* destroy every framebuffer; recreate along zip(framebuffers, image_views)
        fbTo == IF ~scOk THEN 0
                ELSE IF fail.at = "framebuffer" THEN fail.i - 1
                ELSE Min(Len(framebuffers), sc2.n)
        fb2 == IF ~scOk THEN framebuffers
               ELSE [i \in DOMAIN framebuffers |->
                        IF i <= fbTo THEN [gen |-> sc2.gen, idx |-> i - 1, live |-> TRUE]
                        ELSE [framebuffers[i] EXCEPT !.live = FALSE]]
        fbOk == scOk /\ fail.at # "framebuffer"
        \* one transition batch per new swapchain image
        acc0 == [subs |-> subs, pending |-> pending, unmatched |-> {}]
        acc1 == IF ~fbOk THEN acc0
                ELSE [acc0 EXCEPT !.subs =
                        subs \o [i \in 1..sc2.n |->
                                    TransitionBatch({ImageRef(sc2.gen, i - 1)})]]
        \* the textures, in the order of the calls
        texTo == IF ~fbOk THEN 0
                 ELSE IF fail.at = "texture" THEN fail.i - 1
                 ELSE Len(TexOrder)
        tex2 == [t \in TexNames |->
                    IF TexIndex(t) <= texTo THEN VkTexture_resize(t, ext, FALSE)
                    ELSE IF fbOk /\ TexIndex(t) = texTo + 1
                         THEN VkTexture_resize(t, ext, TRUE)
                    ELSE textures[t]]
        ok == fbOk /\ fail.at # "texture"
        \* the new swapchain images and the recreated textures are UNDEFINED
        \* until their transitions are submitted
        lay0 == IF scOk
                THEN [layout EXCEPT !.present = [i \in 1..sc2.n |-> "UNDEFINED"]]
                ELSE layout
        lay1 == IF fbOk
                THEN set_image_layouts(lay0,
                        [i \in 1..sc2.n |->
                            Transition("present", i - 1, "UNDEFINED", "PRESENT_SRC_KHR")])
                ELSE lay0
        lay2 == [lay1 EXCEPT !.image =
                    [t \in LayoutNames |->
                        IF fbOk /\ t \in TexNames /\ TexIndex(t) <= texTo + 1
                        THEN "UNDEFINED" ELSE @[t]]]
        lay3 == IF ok
                THEN set_image_layouts(lay2,
                        [k \in DOMAIN TexOrder |->
                            Transition(TexOrder[k], 0, "UNDEFINED", "GENERAL")])
                ELSE lay2
        acc2 == IF ~ok THEN acc1
                ELSE [acc1 EXCEPT !.subs =
                        Append(acc1.subs,
                               TransitionBatch({TextureRef(t, tex2[t].gen) : t \in TexNames}))]
    IN  [ok |-> ok,
         extent |-> ext,
         viewports |-> Viewport(ext),
         scissors |-> Scissor(ext),
         swapchain |-> sc2,
         framebuffers |-> fb2,
         textures |-> tex2,
         descriptor_sets |->
            IF ok THEN DescriptorWrite(descriptor_sets, tex2) ELSE descriptor_sets,
         descriptor_sets_compute |->
            IF ok THEN DescriptorWrite(descriptor_sets_compute, tex2)
            ELSE descriptor_sets_compute,
         subs |-> acc2.subs,
         layout |-> lay3]

\* the assignments of a resize() whose result is r
ResizeApply(r) ==
    /\ extent' = r.extent
    /\ viewports' = r.viewports
    /\ scissors' = r.scissors
    /\ swapchain' = r.swapchain
    /\ framebuffers' = r.framebuffers
    /\ textures' = r.textures
    /\ descriptor_sets' = r.descriptor_sets
    /\ descriptor_sets_compute' = r.descriptor_sets_compute
    /\ subs' = r.subs
    /\ layout' = r.layout

\* WindowEvent::Resized: resize() unless the extent is unchanged; a failure
\* panics in unwrap()
MainResized(fail, n2) ==
    /\ pc = "events"
    /\ surface # extent
    /\ swapchain.gen < MaxRecreate
    /\ fail \in ResizeFailures(n2)
    /\ device_wait_idle
    /\ LET r == resize(fail, n2)
       IN  /\ ResizeApply(r)
           /\ pc' = IF r.ok THEN "events" ELSE "panicked"
           \* `if video_recording`: stop recording, send Finish
           /\ video' = IF r.ok /\ video.recording THEN Finish(video) ELSE video
    /\ UNCHANGED <<screenshots, captureVars, ctx, paused, push_constant, surface, pipelineVars,
                   signaled, pending, rec>>

\* the user resizes the window
EnvWindowResize(e) ==
    /\ pc = "events"
    /\ e # surface
    /\ surface' = e
    /\ UNCHANGED <<video, screenshots,
                   captureVars, pc, ctx, paused, push_constant, engineVars,
                   pipelineVars, gpuVars, rec>>

(***************************************************************************)
(* Pipelines: push_render_pipeline, push_compute_pipeline,                 *)
(* make_pipeline_from_shaders, rebuild_pipeline.                           *)
(***************************************************************************)
Paths == {"shader.vert", "shader.frag", "prelude.glsl", "shader.comp"}
BuildResults == {"ok", "ERROR_UNKNOWN", "ERROR_OUT_OF_DEVICE_MEMORY"}

Insert(map, keys, v) ==
    [k \in DOMAIN map \cup keys |-> IF k \in keys THEN v ELSE map[k]]

\* the pipeline built from a shader set, or the error of the failing call
make_pipeline_from_shaders(set, res) ==
    IF res = "ok"
    THEN [ok |-> TRUE, err |-> "none",
          pipeline |-> [kind |-> set.kind, obj |-> builds + 1, shaders |-> set.shaders]]
    ELSE [ok |-> FALSE, err |-> res, pipeline |-> <<>>]

push_render_pipeline(vert, frag, deps, res) ==
    LET pipeline_number == Len(pipelines)
        made == make_pipeline_from_shaders(
                    [kind |-> "Graphics", shaders |-> <<vert, frag>>], res)
    IN  /\ shader_set' = Insert(shader_set, {vert, frag} \cup deps, pipeline_number)
        /\ pipelines' = IF made.ok THEN Append(pipelines, made.pipeline) ELSE pipelines
        /\ builds' = IF made.ok THEN builds + 1 ELSE builds
        /\ registered' =
                IF made.ok
                THEN [registered EXCEPT !.paths = @ \cup
                        {<<path, pipeline_number>> : path \in {vert, frag} \cup deps}]
                ELSE [registered EXCEPT !.failed = TRUE]

push_compute_pipeline(comp, deps, res) ==
    LET pipeline_number == Len(pipelines)
        made == make_pipeline_from_shaders(
                    [kind |-> "Compute", shaders |-> <<comp>>], res)
    IN  /\ shader_set' = Insert(shader_set, {comp} \cup deps, pipeline_number)
        /\ pipelines' = IF made.ok THEN Append(pipelines, made.pipeline) ELSE pipelines
        /\ builds' = IF made.ok THEN builds + 1 ELSE builds
        /\ registered' =
                IF made.ok
                THEN [registered EXCEPT !.paths = @ \cup
                        {<<path, pipeline_number>> : path \in {comp} \cup deps}]
                ELSE [registered EXCEPT !.failed = TRUE]

\* a rebuild that returns every error of the build
RebuildReturnEveryError(made) == IF made.ok THEN "Ok" ELSE made.err

\* what rebuild_pipeline returns for the result of the build
RebuildReturn(made) ==
    IF made.ok \/ made.err = "ERROR_UNKNOWN" THEN "Ok" ELSE made.err

\* a rebuild that assigns whatever the build returned
RebuildAssignAlways(index, made) == [pipelines EXCEPT ![index + 1] = made.pipeline]

\* the pipeline collection rebuild_pipeline leaves
RebuildAssign(index, made) ==
    IF made.ok THEN [pipelines EXCEPT ![index + 1] = made.pipeline] ELSE pipelines

\* a rebuild that takes the shaders of the first pipeline
RebuildShaderSetOfFirst(index) ==
    [kind |-> pipelines[1].kind, shaders |-> pipelines[1].shaders]

\* the ShaderSet rebuild_pipeline makes of the pipeline stored at index
RebuildShaderSet(index) ==
    [kind |-> pipelines[index + 1].kind, shaders |-> pipelines[index + 1].shaders]

rebuild_pipeline(index, res) ==
    LET cur == pipelines[index + 1]
        made == make_pipeline_from_shaders(RebuildShaderSet(index), res)
    IN  /\ pipelines' = RebuildAssign(index, made)
        /\ builds' = IF made.ok THEN builds + 1 ELSE builds
        /\ reb' = [called |-> TRUE, index |-> index, res |-> res, before |-> cur,
                   beforeAll |-> pipelines, tableBefore |-> shader_set,
                   ret |-> RebuildReturn(made)]
        /\ UNCHANGED registered

\* the engine's pipeline interface under a caller that calls it in any order
DepSets == SUBSET {"prelude.glsl"}

ApiPushRender(deps, res) ==
    /\ pc = "setup"
    /\ deps \in DepSets
    /\ res \in BuildResults
    /\ res = "ok" => builds < MaxBuilds
    /\ push_render_pipeline("shader.vert", "shader.frag", deps, res)
    /\ reb' = NoRebuild
    /\ UNCHANGED <<video, screenshots,
                   captureVars, pc, ctx, paused, push_constant, surface, engineVars,
                   gpuVars, rec>>

ApiPushCompute(deps, res) ==
    /\ pc = "setup"
    /\ deps \in DepSets
    /\ res \in BuildResults
    /\ res = "ok" => builds < MaxBuilds
    /\ push_compute_pipeline("shader.comp", deps, res)
    /\ reb' = NoRebuild
    /\ UNCHANGED <<video, screenshots,
                   captureVars, pc, ctx, paused, push_constant, surface, engineVars,
                   gpuVars, rec>>

ApiRebuild(index, res) ==
    /\ pc = "setup"
    /\ index \in 0..(Len(pipelines) - 1)
    /\ res \in BuildResults
    /\ res = "ok" => builds < MaxBuilds
    /\ rebuild_pipeline(index, res)
    /\ UNCHANGED <<video, screenshots,
                   captureVars, pc, ctx, paused, push_constant, surface, engineVars,
                   shader_set, gpuVars, rec>>

\* the calls of make_pipeline_from_shaders that can fail, by the kind of the
\* shader set, in the order of the code
BuildSteps(kind) ==
    IF kind = "Graphics" THEN <<"vert_module", "frag_module", "new_graphics_pipeline">>
    ELSE <<"comp_module", "new_compute_pipeline", "name_object">>

\* an Err arm of the fragment shader that returns at once
FragErrReturns == <<>>

\* the Err arm of the fragment shader: destroy_shader_module(vert_module)
FragErrDestroys == <<"vert_module">>

\* the record of a make_pipeline_from_shaders call on a shader set of this
\* kind in the current state, with the shader modules it creates and
\* destroys when the call `at` fails ("none": no call fails): `?` returns at
\* once, the Err arm of the fragment shader destroys the vertex module, and
\* the modules are destroyed once the pipeline is made
ShaderModules(kind, at) ==
    LET all == IF kind = "Graphics" THEN <<"vert_module", "frag_module">>
               ELSE <<"comp_module">>
        m == CASE at = "none" -> [created |-> all, destroyed |-> all]
               [] at \in {"vert_module", "comp_module"} ->
                    [created |-> <<>>, destroyed |-> <<>>]
               [] at = "frag_module" ->
                    [created |-> <<"vert_module">>, destroyed |-> FragErrDestroys]
               [] OTHER -> [created |-> all, destroyed |-> <<>>]
    IN  [called |-> TRUE, kind |-> kind, at |-> at, created |-> m.created,
         destroyed |-> m.destroyed, pipelines |-> pipelines, builds |-> builds]

\* the failing call and the result of the build go together
BuildFails(kind, res, at) ==
    IF res = "ok" THEN at = "none"
    ELSE \E k \in DOMAIN BuildSteps(kind) : BuildSteps(kind)[k] = at

\* the pipeline interface with the call that fails in the build
ApiPushRenderAt(res, at) ==
    /\ pc = "setup"
    /\ res \in BuildResults
    /\ BuildFails("Graphics", res, at)
    /\ res = "ok" => builds < MaxBuilds
    /\ push_render_pipeline("shader.vert", "shader.frag", {"prelude.glsl"}, res)
    /\ made_from' = ShaderModules("Graphics", at)
    /\ reb' = NoRebuild
    /\ UNCHANGED <<video, screenshots,
                   device, screenshot_ctx, memory, twin, cap, fft, dropped,
                   command_pool, pc, ctx,
                   paused, push_constant, surface, engineVars, gpuVars, rec>>

ApiPushComputeAt(res, at) ==
    /\ pc = "setup"
    /\ res \in BuildResults
    /\ BuildFails("Compute", res, at)
    /\ res = "ok" => builds < MaxBuilds
    /\ push_compute_pipeline("shader.comp", {}, res)
    /\ made_from' = ShaderModules("Compute", at)
    /\ reb' = NoRebuild
    /\ UNCHANGED <<video, screenshots,
                   device, screenshot_ctx, memory, twin, cap, fft, dropped,
                   command_pool, pc, ctx,
                   paused, push_constant, surface, engineVars, gpuVars, rec>>

ApiRebuildAt(index, res, at) ==
    /\ pc = "setup"
    /\ index \in 0..(Len(pipelines) - 1)
    /\ res \in BuildResults
    /\ BuildFails(pipelines[index + 1].kind, res, at)
    /\ res = "ok" => builds < MaxBuilds
    /\ rebuild_pipeline(index, res)
    /\ made_from' = ShaderModules(pipelines[index + 1].kind, at)
    /\ UNCHANGED <<video, screenshots,
                   device, screenshot_ctx, memory, twin, cap, fft, dropped,
                   command_pool, pc, ctx,
                   paused, push_constant, surface, engineVars, shader_set, gpuVars,
                   rec>>

\* main(): the two pushes before the event loop; `?` ends main on an error
MainPushRender(res) ==
    /\ pc = "setup"
    /\ pipelines = <<>>
    /\ res \in BuildResults
    /\ push_render_pipeline("shader.vert", "shader.frag", {"prelude.glsl"}, res)
    /\ pc' = IF res = "ok" THEN "setup" ELSE "exit"
    /\ UNCHANGED <<video, screenshots,
                   captureVars, ctx, paused, push_constant, surface, engineVars,
                   gpuVars, rec, reb>>

MainPushCompute(res) ==
    /\ pc = "setup"
    /\ Len(pipelines) = 1
    /\ res \in BuildResults
    /\ push_compute_pipeline("shader.comp", {}, res)
    /\ pc' = IF res = "ok" THEN "new_events" ELSE "exit"
    /\ UNCHANGED <<video, screenshots,
                   captureVars, ctx, paused, push_constant, surface, engineVars,
                   gpuVars, rec, reb>>

\* Event::NewEvents without a file-change event; `pause` is main's local,
\* which the F2, F3 and F4 keys set.  The upload of the spectrum it makes
\* when `pause` is false changes the FFT texture's own fence, command buffer
\* and staging memory only: MainNewEventsFft is the handler with the upload
MainNewEvents(pause) ==
    /\ pc = "new_events"
    /\ paused' = ~pause
    /\ pc' = "events"
    /\ rec' = NoRender
    /\ reb' = NoRebuild
    /\ UNCHANGED <<video, screenshots,
                   captureVars, ctx, push_constant, surface, engineVars, pipelines,
                   shader_set, builds, registered, gpuVars>>

\* Event::NewEvents with a file-change event for `path`: wait for the device,
\* rebuild the pipeline the path is registered for (unwrap() panics on Err)
MainShaderChanged(path, res, pause) ==
    /\ pc = "new_events"
    /\ path \in DOMAIN shader_set
    /\ res \in BuildResults
    /\ res = "ok" => builds < MaxBuilds
    /\ DeviceIdle
    /\ rebuild_pipeline(shader_set[path], res)
    /\ pc' = IF reb'.ret = "Ok" THEN "events" ELSE "panicked"
    /\ paused' = IF reb'.ret = "Ok" THEN ~pause ELSE paused
    /\ rec' = NoRender
    /\ UNCHANGED <<video, screenshots,
                   captureVars, ctx, push_constant, surface, engineVars, shader_set, gpuVars>>

(***************************************************************************)
(* render().                                                               *)
(***************************************************************************)
AcquireResults == {"ok", "suboptimal", "out_of_date", "ERROR_DEVICE_LOST"}
PresentResults == {"ok", "suboptimal", "out_of_date", "ERROR_DEVICE_LOST"}
Stale == {"suboptimal", "out_of_date"}
UBOutcomes == {"ignore", "block"}

\* the semaphores of the Compute pipelines, collected by the filter_map
compute_semaphores ==
    {ComputeSemaphore(pipelines[i].obj) :
        i \in {j \in DOMAIN pipelines : pipelines[j].kind = "Compute"}}

\* a compute pass that dispatches when the flag is false
ComputeCommandsInverted(p) ==
    IF p THEN <<>>
    ELSE <<"set_image_layout", "set_image_layout", "blit_image",
           "set_image_layout", "set_image_layout", "cmd_bind_pipeline",
           "cmd_push_constants", "cmd_bind_descriptor_sets", "cmd_dispatch">>

\* the transport_barrier calls of the compute command buffer: around the
\* blit of the acquired image into previous_frame
ComputeTransitions(idx, p) ==
    IF p
    THEN <<Transition("present", idx, "PRESENT_SRC_KHR", "TRANSFER_SRC_OPTIMAL"),
           Transition("previous_frame", 0, "GENERAL", "TRANSFER_DST_OPTIMAL"),
           Transition("previous_frame", 0, "TRANSFER_DST_OPTIMAL", "GENERAL"),
           Transition("present", idx, "TRANSFER_SRC_OPTIMAL", "PRESENT_SRC_KHR")>>
    ELSE <<>>

\* the commands recorded into the compute command buffer
ComputeCommands(p) ==
    IF p
    THEN <<"set_image_layout", "set_image_layout", "blit_image",
           "set_image_layout", "set_image_layout", "cmd_bind_pipeline",
           "cmd_push_constants", "cmd_bind_descriptor_sets", "cmd_dispatch">>
    ELSE <<>>

GraphicsCommands ==
    <<"set_image_layout", "cmd_begin_render_pass", "cmd_bind_pipeline",
      "cmd_set_viewport", "cmd_set_scissor", "cmd_bind_descriptor_sets",
      "cmd_push_constants", "cmd_draw", "cmd_end_render_pass">>

\* the semaphores the compute submission waits on and signals
ComputeWaits == {present_complete_semaphore}
ComputeSignals(pipeline) == {ComputeSemaphore(pipeline.obj)}

\* a graphics submission that waits for the acquired image only
GraphicsWaitsAcquireOnly == {present_complete_semaphore}

\* the semaphores the graphics submission waits on and signals
GraphicsWaits == compute_semaphores \cup {present_complete_semaphore}
GraphicsSignals == {rendering_complete_semaphore}

\* the semaphores the present waits on
PresentWaits == {rendering_complete_semaphore}

ComputeBatch(pipeline) ==
    Batch("compute", "compute", rec.frame0, ComputeWaits, ComputeSignals(pipeline),
          ComputeCommands(paused),
          {PipelineRef(pipeline)} \cup
          (IF paused
           THEN {ImageRef(swapchain.gen, rec.idx),
                 TextureRef("previous_frame", textures["previous_frame"].gen)}
                \cup {TextureRef(t, descriptor_sets_compute[t]) : t \in TexNames}
           ELSE {}))

GraphicsBatch(pipeline) ==
    Batch("graphics", "graphics", rec.frame0, GraphicsWaits, GraphicsSignals,
          GraphicsCommands,
          {PipelineRef(pipeline), FramebufferRef(framebuffers[rec.idx + 1]),
           TextureRef("previous_frame", textures["previous_frame"].gen)}
          \cup {TextureRef(t, descriptor_sets[t]) : t \in TexNames})

PresentBatch ==
    Batch("present", "graphics", rec.frame0, PresentWaits, {}, <<>>,
          {ImageRef(swapchain.gen, rec.idx)})

\* the loop over the pipelines: one graphics submission per Graphics pipeline
RECURSIVE DrawAll(_, _, _)
DrawAll(acc, i, ub) ==
    IF i > Len(pipelines) THEN acc
    ELSE IF pipelines[i].kind = "Graphics"
         THEN DrawAll(record_submit_commandbuffer(acc, GraphicsBatch(pipelines[i]), ub),
                      i + 1, ub)
         ELSE DrawAll(acc, i + 1, ub)

\* a frame counter that is not advanced
NextFrameSame(f) == f

\* the frame counter after a frame was presented
NextFrame(f) == f + 1

\* render(), first part: acquire the next image
RenderAcquireFrom(caller, acq, i) ==
    /\ pc = caller
    /\ push_constant.frame < MaxFrame
    /\ acq \in AcquireResults
    /\ acq \in Stale => swapchain.gen < MaxRecreate
    /\ i \in 0..(swapchain.n - 1)
    /\ acq \in {"out_of_date", "ERROR_DEVICE_LOST"} => i = 0
    /\ rec' = [NoRender EXCEPT !.called = TRUE, !.frame0 = push_constant.frame,
                               !.paused = paused, !.acq = acq, !.idx = i,
                               !.ret = IF acq = "ERROR_DEVICE_LOST" THEN "panic"
                                       ELSE "none"]
    /\ signaled' = IF acq \in {"ok", "suboptimal"}
                   THEN signaled \cup {present_complete_semaphore} ELSE signaled
    /\ pending' = IF acq \in {"ok", "suboptimal"}
                  THEN pending \cup {present_complete_semaphore} ELSE pending
    /\ pc' = CASE acq = "ok" -> "draw"
               [] acq = "suboptimal" -> "resize"
               [] acq = "out_of_date" -> "resize"
               [] OTHER -> "panicked"
    /\ ctx' = CASE acq = "suboptimal" -> "acquire_suboptimal"
                [] acq = "out_of_date" -> "acquire_err"
                [] OTHER -> "none"
    /\ UNCHANGED <<video, screenshots,
                   captureVars, paused, push_constant, surface, engineVars,
                   pipelineVars, subs, layout>>

\* render() as main calls it in Event::MainEventsCleared
RenderAcquire(acq, i) == RenderAcquireFrom("events", acq, i)

\* render() called on whatever collection of pipelines the pushes have built
ApiRender(i) == RenderAcquireFrom("setup", "ok", i)

\* render(), the resize() it calls on a stale result, and what follows it
RenderResize(fail, n2) ==
    /\ pc = "resize"
    /\ fail \in ResizeFailures(n2)
    /\ device_wait_idle
    /\ LET r == resize(fail, n2)
           \* swapchain.images[present_index] after the resize
           oob == ctx = "acquire_suboptimal" /\ rec.idx >= r.swapchain.n
           ret == IF ~r.ok THEN "Err"
                  ELSE IF oob THEN "panic"
                  ELSE IF ctx = "acquire_suboptimal" THEN "none"
                  ELSE "Ok"
       IN  /\ ResizeApply(r)
           /\ rec' = [rec EXCEPT !.resizes = @ + 1, !.resizeFailed = ~r.ok,
                                 !.ret = ret]
           /\ pc' = CASE ret = "none" -> "draw"
                      [] ret = "Ok" -> MainAfterRender
                      [] OTHER -> "panicked"
           /\ push_constant' =
                IF ret = "Ok" /\ ctx = "present"
                THEN [push_constant EXCEPT !.frame = NextFrame(@)]
                ELSE push_constant
    /\ ctx' = "none"
    /\ UNCHANGED <<video, screenshots,
                   captureVars, paused, surface, pipelineVars, signaled, pending>>

\* the render area of a graphics pass: `self.surface.resolution(&self.device)?`,
\* the size of the window surface when render() records the pass
render_area == Scissor(surface)

\* render(), second part: the compute queue is idle; submit the compute pass,
\* the graphics passes and the present
RenderDraw(pres, ub) ==
    /\ pc = "draw"
    /\ pres \in PresentResults
    /\ ub \in UBOutcomes
    /\ pres \in Stale => swapchain.gen < MaxRecreate
    /\ QueueIdle("compute")
    /\ LET acc0 == [subs |-> subs, pending |-> pending, unmatched |-> {}]
           \* self.pipelines[1]
           oob1 == Len(pipelines) < 2
           second == pipelines[2]
           doCompute == ~oob1 /\ second.kind = "Compute"
           acc1 == IF doCompute THEN QueueSubmit(acc0, ComputeBatch(second), ub)
                   ELSE acc0
           anyGraphics == \E j \in DOMAIN pipelines : pipelines[j].kind = "Graphics"
           \* self.framebuffers[present_index]
           oob2 == anyGraphics /\ rec.idx >= Len(framebuffers)
           acc2 == IF oob1 \/ oob2 THEN acc1 ELSE DrawAll(acc1, 1, ub)
           panic == oob1 \/ oob2
           acc3 == IF panic THEN acc2 ELSE QueueSubmit(acc2, PresentBatch, ub)
           submitted == (IF doCompute THEN {"compute"} ELSE {})
                        \cup (IF ~panic /\ anyGraphics THEN {"graphics"} ELSE {})
                        \cup (IF ~panic THEN {"present"} ELSE {})
           ret == IF panic \/ pres = "ERROR_DEVICE_LOST" THEN "panic"
                  ELSE IF pres \in Stale THEN "none"
                  ELSE "Ok"
       IN  /\ subs' = acc3.subs
           /\ pending' = acc3.pending
           \* the render pass leaves the acquired image presentable
           /\ layout' = set_image_layouts(layout,
                (IF doCompute THEN ComputeTransitions(rec.idx, paused) ELSE <<>>)
                \o (IF ~panic /\ anyGraphics
                    THEN <<Transition("previous_frame", 0, "GENERAL", "GENERAL")>>
                    ELSE <<>>))
           /\ rec' = [rec EXCEPT !.submitted = submitted,
                                 !.unmatched = acc3.unmatched,
                                 !.graphics =
                                    IF panic THEN 0
                                    ELSE Cardinality({j \in DOMAIN pipelines :
                                            pipelines[j].kind = "Graphics"}),
                                 !.paused = paused,
                                 !.computeCmds =
                                    IF doCompute THEN acc1.subs[Len(acc1.subs)].cmds
                                    ELSE <<>>,
                                 !.computeSignals =
                                    IF doCompute THEN acc1.subs[Len(acc1.subs)].signals
                                    ELSE {},
                                 !.pres = IF panic THEN "none" ELSE pres,
                                 !.ret = ret]
           /\ pc' = CASE ret = "none" -> "resize"
                      [] ret = "Ok" -> MainAfterRender
                      [] OTHER -> "panicked"
           /\ ctx' = IF ret = "none" THEN "present" ELSE "none"
           /\ push_constant' =
                IF ret = "Ok" THEN [push_constant EXCEPT !.frame = NextFrame(@)]
                ELSE push_constant
    /\ UNCHANGED <<video, screenshots,
                   captureVars, paused, surface, engineVars, pipelineVars, signaled>>

(***************************************************************************)
(* capture_frame() and ScreenshotCtx::realloc.                             *)
(***************************************************************************)
\* the frames a presentable image may hold
Frames == {"frame_a", "frame_b"}

\* `(extent.width * extent.height * 4) as usize > self.data.len()`
RemapNeeded(e, len) == e[1] * e[2] * 4 > len

\* alloc_memory succeeds, or fails for want of device memory
ReallocFailures == {"none", "alloc_memory"}

\* vkFreeMemory of a handle that was freed before: the driver's choice
FreeOutcomes == {"ignore", "crash"}

\* ScreenshotCtx::realloc for the engine's extent: nothing when the extent is
\* the context's; else new images for the extent with an even height, new
\* memory and a new mapping when RemapNeeded, and the images bound.  A
\* failing alloc_memory returns after the free, before the assignment.
realloc(sc, mem, dev, ext, fail) ==
    IF sc.extent = ext
    THEN [sc |-> sc, mem |-> mem, ok |-> TRUE, realloc |-> FALSE,
          remapped |-> FALSE, double_free |-> FALSE,
          required |-> HostImage(sc).memory_requirements, mapping |-> sc.data.len]
    ELSE
    LET e == <<ext[1], return_aligned(ext[2], 2)>>
        two == sc.blit_image # <<>>
        linear == create_image(mem, dev, "LINEAR", sc.format, e)
        optimal == create_image(linear.mem, dev, "OPTIMAL", sc.format, e)
        blit0 == IF two
                 THEN <<[linear.img EXCEPT !.memory = sc.blit_image[1].memory]>>
                 ELSE <<>>
        image0 == [(IF two THEN optimal.img ELSE linear.img)
                        EXCEPT !.memory = sc.image.memory]
        mem0 == IF two THEN optimal.mem ELSE linear.mem
        grow == RemapNeeded(e, sc.data.len)
        failed == grow /\ fail = "alloc_memory"
        \* the memory freed before the first alloc_memory
        first == IF two THEN blit0[1].memory ELSE image0.memory
        \* unmap and free the memory of blit_image, allocate anew
        memB == IF grow /\ two
                THEN alloc_memory(free_memory(mem0, blit0[1].memory),
                                  blit0[1].memory_requirements)
                ELSE mem0
        blit1 == IF grow /\ two
                 THEN <<[blit0[1] EXCEPT !.memory = memB.next - 1]>>
                 ELSE blit0
        \* unmap (direct path) and free the memory of image, allocate anew
        memI == IF grow
                THEN alloc_memory(free_memory(memB, image0.memory),
                                  image0.memory_requirements)
                ELSE memB
        image1 == IF grow THEN [image0 EXCEPT !.memory = memI.next - 1] ELSE image0
        host == IF two THEN blit1[1] ELSE image1
        \* map the memory of the image the host reads
        memM == IF grow THEN [memI EXCEPT !.mapped = @ \cup {host.memory}] ELSE memI
        data == IF grow
                THEN [memory |-> host.memory, len |-> host.memory_requirements]
                ELSE sc.data
        \* bind_image_memory
        blit2 == IF two THEN <<[blit1[1] EXCEPT !.bound = blit1[1].memory]>> ELSE <<>>
        image2 == [image1 EXCEPT !.bound = image1.memory]
    IN  IF failed
        THEN [sc |-> [sc EXCEPT !.extent = e, !.image = image0, !.blit_image = blit0],
              mem |-> free_memory(mem0, first), ok |-> FALSE, realloc |-> TRUE,
              remapped |-> FALSE, double_free |-> first \notin DOMAIN mem.live,
              required |-> (IF two THEN blit0[1] ELSE image0).memory_requirements,
              mapping |-> sc.data.len]
        ELSE [sc |-> [sc EXCEPT !.extent = e, !.image = image2,
                                !.blit_image = blit2, !.data = data],
              mem |-> memM, ok |-> TRUE, realloc |-> TRUE, remapped |-> grow,
              double_free |->
                    /\ grow
                    /\ \/ image0.memory \notin DOMAIN mem.live
                       \/ (two /\ blit0[1].memory \notin DOMAIN mem.live),
              required |-> host.memory_requirements, mapping |-> sc.data.len]

\* set_image_layout on the image, as the closure transport_barrier records it
transport_barrier(image, old_layout, new_layout) ==
    [op |-> "barrier", src |-> image, dst |-> image, old_layout |-> old_layout,
     new_layout |-> new_layout, from |-> <<0, 0>>, to |-> <<0, 0>>]

\* the two-step commands with the copy left out
CaptureCommandsNoCopy(sc, ext) ==
    <<transport_barrier("present", "PRESENT_SRC_KHR", "TRANSFER_SRC_OPTIMAL"),
      transport_barrier("image", "UNDEFINED", "TRANSFER_DST_OPTIMAL"),
      [op |-> "blit", src |-> "present", dst |-> "image", old_layout |-> "", new_layout |-> "",
       from |-> ext, to |-> sc.extent]>>
    \o (IF sc.blit_image # <<>>
        THEN <<transport_barrier("blit_image", "UNDEFINED", "TRANSFER_DST_OPTIMAL"),
               transport_barrier("image", "TRANSFER_DST_OPTIMAL", "TRANSFER_SRC_OPTIMAL")>>
        ELSE <<>>)
    \o <<transport_barrier(IF sc.blit_image # <<>> THEN "blit_image" ELSE "image",
                 "TRANSFER_DST_OPTIMAL", "GENERAL"),
         transport_barrier("present", "TRANSFER_SRC_OPTIMAL", "PRESENT_SRC_KHR")>>

\* the commands capture_frame records: the presentable image to transfer
\* source, image to transfer destination, blit; with a blit_image, image to
\* transfer source and copy into blit_image; the image the host reads to
\* general, the presentable image back
CaptureCommands(sc, ext) ==
    <<transport_barrier("present", "PRESENT_SRC_KHR", "TRANSFER_SRC_OPTIMAL"),
      transport_barrier("image", "UNDEFINED", "TRANSFER_DST_OPTIMAL"),
      [op |-> "blit", src |-> "present", dst |-> "image", old_layout |-> "", new_layout |-> "",
       from |-> ext, to |-> sc.extent]>>
    \o (IF sc.blit_image # <<>>
        THEN <<transport_barrier("blit_image", "UNDEFINED", "TRANSFER_DST_OPTIMAL"),
               transport_barrier("image", "TRANSFER_DST_OPTIMAL", "TRANSFER_SRC_OPTIMAL"),
               [op |-> "copy", src |-> "image", dst |-> "blit_image",
                old_layout |-> "", new_layout |-> "", from |-> sc.extent, to |-> sc.extent]>>
        ELSE <<>>)
    \o <<transport_barrier(IF sc.blit_image # <<>> THEN "blit_image" ELSE "image",
                 "TRANSFER_DST_OPTIMAL", "GENERAL"),
         transport_barrier("present", "TRANSFER_SRC_OPTIMAL", "PRESENT_SRC_KHR")>>

\* the images of a capture before its commands run
ImagesBefore(dev, src, ext) ==
    [r \in {"present", "image", "blit_image"} |->
        IF r = "present"
        THEN [layout |-> "PRESENT_SRC_KHR",
              content |-> [valid |-> TRUE, frame |-> src, from |-> ext, to |-> ext,
                           channels |-> Channels(dev.format)]]
        ELSE [layout |-> "UNDEFINED", content |-> Undefined]]

\* the image of the context a command names
ImageOf(sc, r) == IF r = "blit_image" THEN sc.blit_image[1] ELSE sc.image

\* one transfer command on the images: a barrier moves the layout, and keeps
\* the texels unless it comes from UNDEFINED or from a layout the image is
\* not in; a blit scales and converts into the destination's format, where
\* the device blits into the destination's tiling; a copy moves the texels
\* as they are
ExecuteCommand(dev, sc, imgs, c) ==
    CASE c.op = "barrier" ->
            [imgs EXCEPT ![c.src] =
                [layout |-> c.new_layout,
                 content |-> IF \/ c.old_layout = "UNDEFINED"
                                \/ imgs[c.src].layout # c.old_layout
                             THEN Undefined ELSE imgs[c.src].content]]
      [] c.op = "blit" ->
            [imgs EXCEPT ![c.dst].content =
                IF /\ imgs[c.src].layout = "TRANSFER_SRC_OPTIMAL"
                   /\ imgs[c.dst].layout = "TRANSFER_DST_OPTIMAL"
                   /\ imgs[c.src].content.valid
                   /\ c.to = ImageOf(sc, c.dst).extent
                   /\ ImageOf(sc, c.dst).tiling \in dev.dst_blit
                THEN [valid |-> TRUE, frame |-> imgs[c.src].content.frame,
                      from |-> c.from, to |-> c.to,
                      channels |-> Channels(sc.format)]
                ELSE Undefined]
      [] c.op = "copy" ->
            [imgs EXCEPT ![c.dst].content =
                IF /\ imgs[c.src].layout = "TRANSFER_SRC_OPTIMAL"
                   /\ imgs[c.dst].layout = "TRANSFER_DST_OPTIMAL"
                   /\ c.to = ImageOf(sc, c.dst).extent
                   /\ c.from = ImageOf(sc, c.src).extent
                THEN imgs[c.src].content ELSE Undefined]

RECURSIVE Execute(_, _, _, _)
\* the commands of a command buffer, in order
Execute(dev, sc, imgs, cmds) ==
    IF cmds = <<>> THEN imgs
    ELSE Execute(dev, sc, ExecuteCommand(dev, sc, imgs, Head(cmds)), Tail(cmds))

\* the image the host reads is backed: bound to a live allocation that holds it
Backed(sc, mem) ==
    LET host == HostImage(sc)
    IN  /\ host.bound \in DOMAIN mem.live
        /\ mem.live[host.bound] >= host.memory_requirements

\* `data` points into the mapped memory the image the host reads is bound to
DataValid(sc, mem) ==
    /\ sc.data.memory \in DOMAIN mem.live
    /\ sc.data.memory \in mem.mapped
    /\ sc.data.memory = HostImage(sc).bound
    /\ sc.data.len <= mem.live[sc.data.memory]

\* what the host sees through `data` once the commands have run
Visible(dev, sc, mem, src, ext) ==
    LET imgs == Execute(dev, sc, ImagesBefore(dev, src, ext), sc.commbuf)
        host == imgs[IF sc.blit_image # <<>> THEN "blit_image" ELSE "image"]
    IN  IF host.layout = "GENERAL" /\ Backed(sc, mem) /\ DataValid(sc, mem)
        THEN host.content ELSE Undefined

\* the end of capture_frame: (w, h) from the subresource layout of the image
\* the host reads, and the slice `data[..w * h * 4]`, which panics past the
\* end of `data`
CaptureResult(dev, sc, mem, src, ext) ==
    LET subresource_layout == SubresourceLayout(dev, sc.format, HostImage(sc).extent)
        w == subresource_layout.row_pitch \div 4
        h == subresource_layout.size \div subresource_layout.row_pitch
    IN  [ret |-> IF w * h * 4 > sc.data.len THEN "panic" ELSE "Ok",
         w |-> w, h |-> h, len |-> w * h * 4,
         row_pitch |-> subresource_layout.row_pitch,
         visible |-> Visible(dev, sc, mem, src, ext)]

\* a device that differs in blitting into linear images
DirectDevice(dev) == [dev EXCEPT !.dst_blit = @ \cup {"LINEAR"}]

\* a capture that leaves the fence as it is
reset_fences_skipped(s) == s

\* reset_fences(&[self.screenshot_ctx.fence])
reset_fences(s) == s \ {screenshot_fence}

\* the batch capture_frame submits: no semaphores, the context's fence
CaptureBatch(sc) ==
    Batch("capture", "graphics", 0 - 1, {}, {sc.fence}, sc.commbuf, {})

\* how the call ends in realloc, if it does: the driver's crash on a handle
\* freed twice, or the error of the failing alloc_memory
ReallocEnd(r, ub) ==
    IF r.double_free /\ ub = "crash" THEN "crash"
    ELSE IF ~r.ok THEN "ERROR_OUT_OF_DEVICE_MEMORY"
    ELSE "none"

RECURSIVE CaptureTransitions(_, _)
\* the transport_barrier calls among the commands of capture_frame, the
\* present image being swapchain image `a`
CaptureTransitions(cmds, a) ==
    IF cmds = <<>> THEN <<>>
    ELSE (IF Head(cmds).op = "barrier"
          THEN <<Transition(Head(cmds).src, a, Head(cmds).old_layout,
                            Head(cmds).new_layout)>>
          ELSE <<>>) \o CaptureTransitions(Tail(cmds), a)

\* how the call ends at swapchain.images[active_command], which realloc
\* precedes: the panic of an index out of range
ImageIndexEnd(end, a) ==
    IF a < swapchain.n THEN end
    ELSE [none |-> "panic", crash |-> "crash",
          ERROR_OUT_OF_DEVICE_MEMORY |-> "ERROR_OUT_OF_DEVICE_MEMORY"][end]

\* capture_frame() up to wait_for_fences: reallocate for the engine's extent,
\* take swapchain.images[command_pool.active_command], record the commands,
\* submit with the fence; an error of realloc is returned to the caller, who
\* may call again.  `a` is active_command: the command pool chooses it among
\* its command buffers, render() does not hand it the acquired index
CaptureSubmitFrom(caller, back, wants, src, a, fail, ub) ==
    /\ pc = caller
    /\ cap.n < MaxCaptures
    /\ a \in 0..(command_pool.command_buffers - 1)
    /\ \E r \in {realloc(screenshot_ctx, memory, device, extent, fail)},
          t \in {realloc(twin.sc, twin.mem, DirectDevice(device), extent, fail)} :
       \E end \in {ImageIndexEnd(ReallocEnd(r, ub), a)} :
       \E sc2 \in {[r.sc EXCEPT !.commbuf =
                        IF end = "none" THEN CaptureCommands(r.sc, extent) ELSE <<>>]} :
           \* the inputs count where realloc reaches them
           /\ fail = "alloc_memory" => ~r.ok
           /\ ub = "crash" => r.double_free
           /\ screenshot_ctx' = sc2
           /\ memory' = r.mem
           /\ twin' = [sc |-> [t.sc EXCEPT !.commbuf =
                                    IF ReallocEnd(t, ub) = "none"
                                    THEN CaptureCommands(t.sc, extent) ELSE <<>>],
                       mem |-> t.mem]
           /\ subs' = IF end = "none" THEN Append(subs, CaptureBatch(sc2)) ELSE subs
           \* the images realloc has created are UNDEFINED
           /\ layout' = set_image_layouts(
                            [layout EXCEPT !.image =
                                [name \in LayoutNames |->
                                    IF r.realloc /\ name \in {"image", "blit_image"}
                                    THEN "UNDEFINED" ELSE @[name]]],
                            CaptureTransitions(sc2.commbuf, a))
           /\ cap' = [NoCapture EXCEPT !.called = TRUE, !.n = cap.n + 1,
                          !.src = src, !.requested = extent,
                          !.index = a, !.from = back,
                          !.previous = IF cap.called THEN cap.requested
                                       ELSE InitialExtent,
                          !.before = screenshot_ctx.extent,
                          !.realloc = r.realloc, !.remapped = r.remapped,
                          !.required = r.required, !.mapping = r.mapping,
                          !.result = [NoResult EXCEPT !.ret = end],
                          !.twin = [NoResult EXCEPT !.ret = ReallocEnd(t, ub)]]
           /\ pc' = CASE end = "none" -> "capture"
                      [] end \in {"crash", "panic"} -> "panicked"
                      [] OTHER -> pc
           /\ video' = [video EXCEPT !.wants = IF end = "none" THEN wants ELSE @]
    /\ UNCHANGED <<screenshots, ctx, paused, push_constant, surface, engineVars, pipelineVars,
                   signaled, pending, rec, device, fft, dropped, made_from,
                   command_pool>>

\* capture_frame() called between two frames, or before the first
CaptureSubmit(src, a, fail, ub) ==
    \E caller \in {"setup", "new_events"} :
        CaptureSubmitFrom(caller, caller, "none", src, a, fail, ub)

\* F12: `if video_recording` send Finish, else capture_frame() for the size
\* that Start announces; video_recording is toggled
MainF12(src, a) ==
    \/ /\ pc = "events"
       /\ video.recording
       /\ video' = Finish(video)
       /\ UNCHANGED <<screenshots, captureVars, pc, ctx, paused, push_constant, surface,
                      engineVars, pipelineVars, gpuVars, rec>>
    \/ /\ ~video.recording
       /\ CaptureSubmitFrom("events", "events", "start", src, a, "none", "ignore")

\* MainEventsCleared, `if video_recording`: capture_frame() for the frame
\* that Record carries
MainRecordFrame(src, a) ==
    CaptureSubmitFrom("record", "new_events", "record", src, a, "none", "ignore")

\* what main does with the (w, h) of the capture_frame() it waited for:
\* Start(w, h) and video_recording on F12, Record(frame) for a frame
VideoSend(v, w, h) ==
    CASE v.wants = "start" ->
            [recording |-> TRUE, wants |-> "none", start |-> <<w, h>>,
             sent |-> <<0, 0>>]
      [] v.wants = "record" -> [v EXCEPT !.wants = "none", !.sent = <<w, h>>]
      [] OTHER -> [v EXCEPT !.wants = "none"]

\* F11: capture_frame() for the slice that save_screenshot is given
MainF11(src, a) ==
    CaptureSubmitFrom("events", "events", "screenshot", src, a, "none", "ignore")

\* save_screenshot: a thread that reads `frame`, the first len bytes of the
\* mapped capture memory, while it encodes them
save_screenshot(sc, len) == [memory |-> sc.data.memory, len |-> len]

\* the thread has written the image and ends; nothing waits for it
ScreenshotSaved(t) ==
    /\ t \in screenshots
    /\ screenshots' = screenshots \ {t}
    /\ UNCHANGED <<video, captureVars, pc, ctx, paused, push_constant, surface,
                   engineVars, pipelineVars, gpuVars, rec>>

\* capture_frame() from wait_for_fences: returns once the fence is signaled,
\* resets the fence, returns the slice and (w, h)
CaptureReturn ==
    /\ pc = "capture"
    /\ screenshot_ctx.fence \in signaled
    /\ signaled' = reset_fences(signaled)
    /\ \E r \in {CaptureResult(device, screenshot_ctx, memory, cap.src,
                                cap.requested)},
          t \in {IF cap.twin.ret = "none"
                 THEN CaptureResult(DirectDevice(device), twin.sc, twin.mem,
                                    cap.src, cap.requested)
                 ELSE cap.twin} :
           /\ cap' = [cap EXCEPT !.result = r, !.twin = t,
                          !.completed = \A i \in DOMAIN subs : subs[i].kind # "capture",
                          !.fence = screenshot_ctx.fence \in signaled']
           /\ pc' = IF r.ret = "Ok" THEN cap.from ELSE "panicked"
           /\ video' = IF r.ret = "Ok" THEN VideoSend(video, r.w, r.h) ELSE video
           /\ screenshots' =
                IF r.ret = "Ok" /\ video.wants = "screenshot"
                THEN screenshots \cup {save_screenshot(screenshot_ctx, r.len)}
                ELSE screenshots
    /\ UNCHANGED <<ctx, paused, push_constant, surface, engineVars, pipelineVars,
                   subs, pending, layout, rec, device, screenshot_ctx, memory, twin,
                   fft, dropped, made_from, command_pool>>

\* the window changes to e
ApiSurfaceChange(e) ==
    /\ pc = "setup"
    /\ e # surface
    /\ surface' = e
    /\ UNCHANGED <<video, screenshots,
                   captureVars, pc, ctx, paused, push_constant, engineVars,
                   pipelineVars, gpuVars, rec>>

\* resize() for the window's extent; the driver keeps the number of images
ApiResize ==
    /\ pc = "setup"
    /\ surface # extent
    /\ swapchain.gen < MaxRecreate
    /\ device_wait_idle
    /\ ResizeApply(resize(NoFail, swapchain.n))
    /\ UNCHANGED <<video, screenshots,
                   captureVars, pc, ctx, paused, push_constant, surface,
                   pipelineVars, signaled, pending, rec>>

(***************************************************************************)
(* update_fft_texture(): FftTexture::update on the transfer queue.         *)
(***************************************************************************)
\* an update that does not wait for its fence
wait_for_fences_skipped(fence) == TRUE

\* wait_for_fences(&[submit_fence], true, u64::MAX): returns once the fence
\* is signaled
wait_for_fences(fence) == fence \in signaled

\* a raw copy of `dst.len` floats, whatever the length of the source
copy_nonoverlapping(dst, data) == [ret |-> "Ok", mem |-> [dst EXCEPT !.id = data.id]]

\* self.mapped_memory.copy_from_slice(data): panics unless the two slices
\* have the same length
copy_from_slice(dst, data) ==
    IF data.len = dst.len THEN [ret |-> "Ok", mem |-> [dst EXCEPT !.id = data.id]]
    ELSE [ret |-> "panic", mem |-> dst]

\* the commands update() records: GENERAL -> TRANSFER_DST_OPTIMAL, the copy
\* of the staging buffer into the image, TRANSFER_DST_OPTIMAL -> GENERAL
FftCommands ==
    <<"set_image_layout", "cmd_copy_buffer_to_image", "set_image_layout">>

\* the two barriers update() records around the copy
FftTransitions ==
    <<Transition("fft_texture", 0, "GENERAL", "TRANSFER_DST_OPTIMAL"),
      Transition("fft_texture", 0, "TRANSFER_DST_OPTIMAL", "GENERAL")>>

\* the batch update() submits: the transfer queue, no semaphores, its fence
FftBatch(f) ==
    Batch("fft", "transfer", 0 - 1, {}, {f.fence}, f.command_buffer, {})

\* the calls of update() after reset_fences that return an error through `?`
FftFailures == {"none", "reset_command_buffer", "begin_command_buffer",
                "end_command_buffer", "queue_submit"}
FftError == "ERROR_OUT_OF_DEVICE_MEMORY"

\* FftTexture::update from reset_fences on: reset the fence and the command
\* buffer, begin, record the first barrier, copy `data` into the mapped
\* staging memory, record the rest, submit with the fence; a failing call
\* returns its error at once
FftTexture_update(data, fail) ==
    LET early == fail \in {"reset_command_buffer", "begin_command_buffer"}
        c == IF early THEN [ret |-> FftError, mem |-> fft.mapped_memory]
             ELSE copy_from_slice(fft.mapped_memory, data)
        ret == IF c.ret = "Ok" /\ fail # "none" THEN FftError ELSE c.ret
        f == [fft EXCEPT !.mapped_memory = c.mem,
                         !.command_buffer =
                            CASE early -> <<>>
                              [] c.ret = "Ok" -> FftCommands
                              [] OTHER -> <<"set_image_layout">>,
                         !.calls = @ + 1,
                         !.data = data,
                         !.before = fft.mapped_memory.id,
                         !.busy = \E i \in DOMAIN subs : subs[i].kind = "fft",
                         !.ret = ret]
    IN  [fft |-> f,
         signaled |-> signaled \ {fft.fence},
         subs |-> IF ret = "Ok" THEN Append(subs, FftBatch(f)) ELSE subs,
         layout |-> IF ret = "Ok" THEN set_image_layouts(layout, FftTransitions)
                    ELSE layout]

\* Event::NewEvents without a file-change event, with the upload of the
\* spectrum it makes when main's `pause` is false: the call waits for the
\* fence of the upload before it, and unwrap() and copy_from_slice panic
MainNewEventsFft(pause, data) ==
    /\ pc = "new_events"
    /\ data \in FftBuffers
    /\ paused' = ~pause
    /\ rec' = NoRender
    /\ reb' = NoRebuild
    /\ IF pause
       THEN /\ pc' = "events"
            /\ UNCHANGED <<fft, subs, signaled, layout>>
       ELSE /\ wait_for_fences(fft.fence)
            /\ LET u == FftTexture_update(data, "none")
               IN  /\ fft' = u.fft
                   /\ subs' = u.subs
                   /\ signaled' = u.signaled
                   /\ layout' = u.layout
                   /\ pc' = IF u.fft.ret = "Ok" THEN "events" ELSE "panicked"
    /\ UNCHANGED <<video, screenshots,
                   device, screenshot_ctx, memory, twin, cap, dropped, made_from,
                   command_pool, ctx, push_constant, surface, engineVars, pipelines, shader_set,
                   builds, registered, pending>>

\* update_fft_texture() called by a caller that goes on after an error
ApiUpdateFft(data, fail) ==
    /\ pc = "setup"
    /\ data \in FftBuffers
    /\ fail \in FftFailures
    /\ fft.calls < MaxUploads
    /\ wait_for_fences(fft.fence)
    /\ LET u == FftTexture_update(data, fail)
       IN  /\ fft' = u.fft
           /\ subs' = u.subs
           /\ signaled' = u.signaled
           /\ layout' = u.layout
           /\ pc' = IF u.fft.ret = "panic" THEN "panicked" ELSE "setup"
    /\ UNCHANGED <<video, screenshots,
                   device, screenshot_ctx, memory, twin, cap, dropped, made_from,
                   command_pool, ctx, paused, push_constant, surface, engineVars,
                   pipelineVars, pending, rec>>

\* what a batch reads and what it writes, of the images the queues share
Reads(b) ==
    CASE b.kind = "graphics" -> TexNames \cup {"fft_texture"}
      [] b.kind = "compute" /\ b.cmds # <<>> -> {"fft_texture", "present_image"}
      [] b.kind = "present" -> {"present_image"}
      [] OTHER -> {}

Writes(b) ==
    CASE b.kind = "graphics" -> {"present_image"}
      [] b.kind = "compute" /\ b.cmds # <<>> -> TexNames
      [] b.kind = "fft" /\ "cmd_copy_buffer_to_image" \in
                            {b.cmds[k] : k \in DOMAIN b.cmds} -> {"fft_texture"}
      [] OTHER -> {}

(***************************************************************************)
(* Teardown: Drop for PilkaRender.  A destroy call names the group of the  *)
(* handle, the handle, and whether the handle was live when the call came. *)
(***************************************************************************)
Destroy(group, handle, live) == [group |-> group, handle |-> handle, live |-> live]

\* ScreenshotCtx::destroy: with an intermediate image its memory and image,
\* then the fence, the image and its memory
ScreenshotCtx_destroy(sc, mem) ==
    (IF sc.blit_image # <<>>
     THEN <<Destroy("screenshot_ctx", <<"memory", sc.blit_image[1].memory, 0>>,
                    sc.blit_image[1].memory \in DOMAIN mem.live),
            Destroy("screenshot_ctx", <<"image", sc.blit_image[1].image, 0>>, TRUE)>>
     ELSE <<>>)
    \o <<Destroy("screenshot_ctx", <<"fence", sc.fence[2], 0>>, TRUE),
          Destroy("screenshot_ctx", <<"image", sc.image.image, 0>>, TRUE),
          Destroy("screenshot_ctx", <<"memory", sc.image.memory, 0>>,
                  sc.image.memory \in DOMAIN mem.live)>>

\* the order Drop destroys the screen-sized textures in
DropTexOrder == <<"float_texture2", "float_texture1", "previous_frame",
                  "generic_texture", "dummy_texture">>

\* Drop for PilkaRender: the destroy calls, in the order of the code
Drop ==
    [i \in 1..2 |-> Destroy("descriptor_set_layout", <<"graphics_layout", i, 0>>, TRUE)]
    \o [i \in 1..2 |->
            Destroy("descriptor_set_layout", <<"compute_layout", i, 0>>, TRUE)]
    \o <<Destroy("descriptor_pool", <<"descriptor_pool", 0, 0>>, TRUE)>>
    \o <<Destroy("texture", <<"fence", fft.fence[2], 0>>, TRUE),
          Destroy("texture", <<"fft_texture", 0, 0>>, TRUE),
          Destroy("texture", <<"staging_buffer_memory", 0, 0>>, TRUE),
          Destroy("texture", <<"staging_buffer", 0, 0>>, TRUE)>>
    \o [k \in DOMAIN DropTexOrder |->
            Destroy("texture", <<DropTexOrder[k], textures[DropTexOrder[k]].gen, 0>>,
                    textures[DropTexOrder[k]].live)]
    \o ScreenshotCtx_destroy(screenshot_ctx, memory)
    \o <<Destroy("pipeline_cache", <<"pipeline_cache", 0, 0>>, TRUE)>>
    \o <<Destroy("semaphore", <<"present_complete_semaphore", 0, 0>>, TRUE),
          Destroy("semaphore", <<"rendering_complete_semaphore", 0, 0>>, TRUE)>>
    \o [i \in DOMAIN framebuffers |->
            Destroy("framebuffer",
                    <<"framebuffer", framebuffers[i].gen, framebuffers[i].idx>>,
                    framebuffers[i].live)]

\* resize() for the window's extent, the driver giving n2 images; an error
\* is returned to the caller, who may call again
ApiResizeTo(fail, n2) ==
    /\ pc = "setup"
    /\ n2 \in ImageCounts
    /\ fail \in ResizeFailures(n2)
    /\ swapchain.gen < MaxRecreate
    /\ device_wait_idle
    /\ LET r == resize(fail, n2)
       IN  /\ ResizeApply(r)
           /\ rec' = [rec EXCEPT !.resizeFailed = @ \/ ~r.ok]
    /\ UNCHANGED <<video, screenshots,
                   captureVars, pc, ctx, paused, push_constant, surface,
                   pipelineVars, signaled, pending>>

\* the engine is dropped between two calls
ApiDrop ==
    /\ pc = "setup"
    /\ dropped' = Drop
    /\ pc' = "exit"
    /\ UNCHANGED <<video, screenshots,
                   device, screenshot_ctx, memory, twin, cap, fft, made_from,
                   command_pool, ctx, paused, push_constant, surface, engineVars, pipelineVars, gpuVars,
                   rec>>

(***************************************************************************)
(* The application: main.rs drives the engine.                             *)
(***************************************************************************)
Next ==
    \/ \E res \in BuildResults : MainPushRender(res)
    \/ \E res \in BuildResults : MainPushCompute(res)
    \/ \E pause \in BOOLEAN : MainNewEvents(pause)
    \/ \E e \in Extents : EnvWindowResize(e)
    \/ \E n2 \in ImageCounts : \E fail \in ResizeFailures(n2) : MainResized(fail, n2)
    \/ \E acq \in AcquireResults : \E i \in 0..(MaxImages - 1) : RenderAcquire(acq, i)
    \/ \E n2 \in ImageCounts : \E fail \in ResizeFailures(n2) : RenderResize(fail, n2)
    \/ \E pres \in PresentResults, ub \in UBOutcomes : RenderDraw(pres, ub)
    \/ \E i \in DOMAIN subs : GpuExecute(i)

Spec == Init /\ [][Next]_vars

\* the application while shader files change, on a swapchain that stays current
NextReload ==
    \/ \E res \in BuildResults : MainPushRender(res)
    \/ \E res \in BuildResults : MainPushCompute(res)
    \/ \E pause \in BOOLEAN : MainNewEvents(pause)
    \/ \E path \in Paths, res \in BuildResults, pause \in BOOLEAN :
            MainShaderChanged(path, res, pause)
    \/ \E i \in 0..(MaxImages - 1) : RenderAcquire("ok", i)
    \/ \E ub \in UBOutcomes : RenderDraw("ok", ub)
    \/ \E i \in DOMAIN subs : GpuExecute(i)

SpecReload == Init /\ [][NextReload]_vars

\* the pipeline interface alone, called in any order
NextApi ==
    \/ \E deps \in DepSets, res \in BuildResults : ApiPushRender(deps, res)
    \/ \E deps \in DepSets, res \in BuildResults : ApiPushCompute(deps, res)
    \/ \E index \in 0..(MaxBuilds - 1), res \in BuildResults : ApiRebuild(index, res)

SpecApi == Init /\ [][NextApi]_vars

\* the frame loop with the upload of the spectrum, on a swapchain that stays
\* current
NextFft ==
    \/ MainPushRender("ok")
    \/ MainPushCompute("ok")
    \/ \E pause \in BOOLEAN, data \in FftBuffers : MainNewEventsFft(pause, data)
    \/ \E i \in 0..(MaxImages - 1) : RenderAcquire("ok", i)
    \/ \E ub \in UBOutcomes : RenderDraw("ok", ub)
    \/ \E i \in DOMAIN subs : GpuExecute(i)

SpecFft == Init /\ [][NextFft]_vars

\* spectrum uploads of a caller that goes on after an error
NextFftApi ==
    \/ \E data \in FftBuffers, fail \in FftFailures : ApiUpdateFft(data, fail)
    \/ \E i \in DOMAIN subs : GpuExecute(i)

SpecFftApi == Init /\ [][NextFftApi]_vars

\* the pipeline interface, called in any order, with the shader modules of
\* every build
NextShaders ==
    \/ \E res \in BuildResults, k \in 0..3 :
            ApiPushRenderAt(res, (<<"none">> \o BuildSteps("Graphics"))[k + 1])
    \/ \E res \in BuildResults, k \in 0..3 :
            ApiPushComputeAt(res, (<<"none">> \o BuildSteps("Compute"))[k + 1])
    \/ \E index \in 0..(MaxBuilds - 1), res \in BuildResults, k \in 0..3 :
            \E kind \in {"Graphics", "Compute"} :
                ApiRebuildAt(index, res, (<<"none">> \o BuildSteps(kind))[k + 1])

SpecShaders == Init /\ [][NextShaders]_vars

\* render() on any collection of pipelines
NextCollections ==
    \/ ApiPushRender({}, "ok")
    \/ ApiPushCompute({}, "ok")
    \/ \E i \in 0..(MaxImages - 1) : ApiRender(i)
    \/ \E ub \in UBOutcomes : RenderDraw("ok", ub)
    \/ \E i \in DOMAIN subs : GpuExecute(i)

SpecCollections == Init /\ [][NextCollections]_vars

\* the frame loop on a swapchain the window resizes, with a capture after
\* a frame
NextPresent ==
    \/ MainPushRender("ok")
    \/ MainPushCompute("ok")
    \/ \E pause \in BOOLEAN : MainNewEvents(pause)
    \/ \E e \in Extents : EnvWindowResize(e)
    \/ \E n2 \in ImageCounts : MainResized(NoFail, n2)
    \/ \E i \in 0..(MaxImages - 1) : RenderAcquire("ok", i)
    \/ \E ub \in UBOutcomes : RenderDraw("ok", ub)
    \/ \E src \in Frames, a \in 0..(MaxImages - 1) :
            CaptureSubmit(src, a, "none", "ignore")
    \/ CaptureReturn
    \/ \E i \in DOMAIN subs : GpuExecute(i)

SpecPresent == Init /\ [][NextPresent]_vars

\* the frame loop while a video is recorded: F12, the window resized, render()
\* on a swapchain that may be stale, the capture of every frame
NextRecord ==
    \/ MainPushRender("ok")
    \/ MainPushCompute("ok")
    \/ MainNewEvents(FALSE)
    \/ \E e \in Extents : EnvWindowResize(e)
    \/ MainResized(NoFail, MaxImages - 1)
    \/ \E src \in Frames : MainF12(src, 0)
    \/ \E acq \in AcquireResults : RenderAcquire(acq, 0)
    \/ RenderResize(NoFail, MaxImages - 1)
    \/ \E pres \in PresentResults : RenderDraw(pres, "ignore")
    \/ \E src \in Frames : MainRecordFrame(src, 0)
    \/ CaptureReturn
    \/ \E i \in DOMAIN subs : GpuExecute(i)

SpecRecord == Init /\ [][NextRecord]_vars

\* the frame loop with screenshots: F11, the threads that save them, the
\* window resized between two of them
NextScreenshot ==
    \/ MainPushRender("ok")
    \/ MainPushCompute("ok")
    \/ MainNewEvents(FALSE)
    \/ \E e \in CaptureExtents : EnvWindowResize(e)
    \/ MainResized(NoFail, MaxImages - 1)
    \/ \E src \in Frames : MainF11(src, 0)
    \/ RenderAcquire("ok", 0)
    \/ RenderDraw("ok", "ignore")
    \/ CaptureReturn
    \/ \E t \in screenshots : ScreenshotSaved(t)
    \/ \E i \in DOMAIN subs : GpuExecute(i)

SpecScreenshot == Init /\ [][NextScreenshot]_vars

\* resizes and captures that succeed, and the teardown after them
NextTeardown ==
    \/ \E e \in Extents : ApiSurfaceChange(e)
    \/ \E n2 \in ImageCounts : ApiResizeTo(NoFail, n2)
    \/ \E src \in Frames : CaptureSubmit(src, 0, "none", "ignore")
    \/ CaptureReturn
    \/ \E i \in DOMAIN subs : GpuExecute(i)
    \/ ApiDrop

SpecTeardown == Init /\ [][NextTeardown]_vars

\* resizes that may fail part-way and are called again, and the teardown
NextRetry ==
    \/ \E e \in Extents : ApiSurfaceChange(e)
    \/ \E n2 \in ImageCounts : \E fail \in ResizeFailures(n2) : ApiResizeTo(fail, n2)
    \/ \E i \in DOMAIN subs : GpuExecute(i)
    \/ ApiDrop

SpecRetry == Init /\ [][NextRetry]_vars

\* frame capture alone, between resizes, on any device
NextCapture ==
    \/ \E e \in CaptureExtents : ApiSurfaceChange(e)
    \/ ApiResize
    \/ \E src \in Frames, fail \in ReallocFailures, ub \in FreeOutcomes :
            CaptureSubmit(src, 0, fail, ub)
    \/ CaptureReturn
    \/ \E i \in DOMAIN subs : GpuExecute(i)

SpecCapture == InitCapture /\ [][NextCapture]_vars

(***************************************************************************)
(* Properties.  `rec` is the record of the render() call of the current    *)
(* loop iteration, `reb` that of the rebuild_pipeline() call.              *)
(***************************************************************************)
\* the render() call of this iteration has returned or panicked
RenderEnded == rec.called /\ rec.ret # "none"

\* the position of the first command named c in a command buffer, 0 if none
Pos(cmds, c) ==
    IF \E k \in DOMAIN cmds : cmds[k] = c
    THEN CHOOSE k \in DOMAIN cmds : cmds[k] = c /\ \A j \in 1..(k - 1) : cmds[j] # c
    ELSE 0

InSubs(kind, frame) ==
    \E j \in DOMAIN subs : subs[j].kind = kind /\ subs[j].frame = frame

\* C1: in a render() call that acquired an image and submitted its work with
\* pipelines = [Graphics, Compute], every semaphore wait of the compute
\* submission, of the graphics submission and of the present has a matching
\* signal that no earlier wait has taken.
C1_EveryWaitHasItsSignal ==
    (rec.called /\ "present" \in rec.submitted) => rec.unmatched = {}

C3_StaleAcquireSubmitsNothing ==
    (rec.called /\ rec.acq \in Stale) => rec.submitted = {}

\* C4: the compute command buffer render() submits holds the dispatch, with the
\* blit, the pipeline bind, the push constants and the descriptor bind before
\* it, exactly when `paused` is true; when `paused` is false it is empty; in
\* both cases it is submitted and signals the compute pipeline's semaphore.
C4_DispatchIffPaused ==
    (rec.called /\ "compute" \in rec.submitted) =>
        LET cmds == rec.computeCmds
            d == Pos(cmds, "cmd_dispatch")
        IN  /\ (d > 0) <=> paused
            /\ paused =>
                  \A c \in {"blit_image", "cmd_bind_pipeline", "cmd_push_constants",
                            "cmd_bind_descriptor_sets"} :
                      Pos(cmds, c) > 0 /\ Pos(cmds, c) < d
            /\ ~paused => cmds = <<>>
            /\ rec.computeSignals = {ComputeSemaphore(pipelines[2].obj)}

\* an empty compute command buffer was submitted and its batch has signalled
C4_Witness ==
    /\ rec.called
    /\ "compute" \in rec.submitted
    /\ ~paused
    /\ rec.computeCmds = <<>>
    /\ ~InSubs("compute", rec.frame0)
    /\ \E i \in DOMAIN subs : subs[i].kind = "present" /\ Executable(i)

RenderReturnsOk == rec.ret # "Ok" /\ rec'.ret = "Ok"

C6_StaleResultIsRecovered ==
    (/\ RenderEnded
     /\ rec.acq \in Stale \/ rec.pres \in Stale
     /\ ~rec.resizeFailed
     /\ rec.pres # "ERROR_DEVICE_LOST") => rec.ret = "Ok"

\* every image view and sampler a descriptor set references is of a live texture
DescriptorsLive ==
    \A t \in TexNames :
        /\ Live(TextureRef(t, descriptor_sets[t]))
        /\ Live(TextureRef(t, descriptor_sets_compute[t]))

\* C7: while every resize() so far has succeeded (a failing one ends in a
\* panic of its caller), the graphics and the compute descriptor set reference
\* live textures only; in particular after two resize() calls in a row with no
\* change of the extent in between.
C7_DescriptorsLiveAfterResize == pc # "panicked" => DescriptorsLive

\* two successful resize() calls of one render(), the second with the extent
\* the first one left
C7_Witness ==
    /\ rec.called
    /\ rec.resizes = 2
    /\ rec.ret = "Ok"
    /\ extent = surface
    /\ textures["previous_frame"].gen >= 2
    /\ DescriptorsLive

\* C8: after construction and after every successful resize(), `framebuffers`
\* holds exactly one live framebuffer per swapchain image, in image order.
C8_OneFramebufferPerImage ==
    pc # "panicked" =>
        /\ Len(framebuffers) = swapchain.n
        /\ \A i \in DOMAIN framebuffers :
              framebuffers[i] = [gen |-> swapchain.gen, idx |-> i - 1, live |-> TRUE]

\* C9: no batch that is submitted and has not finished references a
\* framebuffer, a swapchain image or a screen-sized texture that was destroyed.
C9_NoDestroyedResourceInFlight ==
    \A i \in DOMAIN subs : \A r \in subs[i].refs : Live(r)

\* a resize() has destroyed what the batches of the frame before referenced,
\* and the batches it submitted itself are in flight
C9_Witness ==
    /\ swapchain.gen > 0
    /\ textures["float_texture2"].gen > 0
    /\ \E i \in DOMAIN subs :
          /\ subs[i].kind = "transition"
          /\ TextureRef("previous_frame", textures["previous_frame"].gen)
                \in subs[i].refs
    /\ \E i \in DOMAIN subs :
          subs[i].kind = "transition" /\ ImageRef(swapchain.gen, 0) \in subs[i].refs

\* C10: a rebuild_pipeline(index) whose build fails leaves pipelines[index]
\* (and the rest of the collection) as it was; it returns Ok when the failure
\* is ERROR_UNKNOWN and the error itself otherwise.
C10_FailedRebuildKeepsPipeline ==
    (reb.called /\ reb.res # "ok") =>
        /\ pipelines[reb.index + 1] = reb.before
        /\ pipelines = reb.beforeAll
        /\ reb.ret = (IF reb.res = "ERROR_UNKNOWN" THEN "Ok" ELSE reb.res)

\* a rebuild failed with ERROR_UNKNOWN and the next frame was drawn with the
\* pipelines as they were
C10_Witness ==
    /\ reb.called
    /\ reb.res = "ERROR_UNKNOWN"
    /\ reb.ret = "Ok"
    /\ pipelines = reb.beforeAll
    /\ rec.submitted = {"compute", "graphics", "present"}

\* C11: a successful rebuild_pipeline(index) puts at index a new pipeline built
\* from the shader descriptors of the pipeline that was there, of the same
\* variant, and leaves the length of `pipelines`, every other pipeline and
\* shader_set as they were.
C11_RebuildReplacesInPlace ==
    (reb.called /\ reb.res = "ok") =>
        /\ Len(pipelines) = Len(reb.beforeAll)
        /\ pipelines[reb.index + 1].kind = reb.before.kind
        /\ pipelines[reb.index + 1].shaders = reb.before.shaders
        /\ \A j \in DOMAIN reb.beforeAll :
              pipelines[reb.index + 1].obj # reb.beforeAll[j].obj
        /\ \A j \in DOMAIN pipelines :
              j # reb.index + 1 => pipelines[j] = reb.beforeAll[j]
        /\ shader_set = reb.tableBefore

\* the second of two pipelines of different variants was rebuilt
C11_Witness ==
    /\ reb.called
    /\ reb.res = "ok"
    /\ reb.index = 1
    /\ reb.beforeAll[1].kind # reb.before.kind
    /\ pipelines[2].obj # reb.before.obj
    /\ pipelines[2].shaders = reb.before.shaders

\* C12: whenever at least two pipelines are registered, pipelines[0] is a
\* Graphics pipeline and pipelines[1] is a Compute pipeline.
C12_GraphicsThenCompute ==
    Len(pipelines) >= 2 =>
        pipelines[1].kind = "Graphics" /\ pipelines[2].kind = "Compute"

\* C13: after pushes that all succeeded, every path passed to a push resolves
\* through shader_set to every pipeline index it was registered for.
C13_EveryRegistrationResolves ==
    ~registered.failed =>
        \A r \in registered.paths :
            r[1] \in DOMAIN shader_set /\ shader_set[r[1]] = r[2]

\* C14, as stated: whatever error rebuild_pipeline meets on a shader-file
\* change, the application keeps running.
C14_FailedReloadNeverEndsTheLoop ==
    (reb.called /\ reb.res # "ok") => pc \notin {"panicked", "exit"}

\* the batches of the frame drawn after the rebuild use the pipelines it found
UsesPipelinesBeforeRebuild ==
    \A i \in DOMAIN subs :
        /\ subs[i].kind = "graphics" => PipelineRef(reb.beforeAll[1]) \in subs[i].refs
        /\ subs[i].kind = "compute" => PipelineRef(reb.beforeAll[2]) \in subs[i].refs

\* C14, amended: a reload whose build fails with ERROR_UNKNOWN leaves the
\* application running, and the frames drawn after it use the pipelines it
\* found; a reload whose build fails with any other error ends the
\* application in the panic of unwrap().
C14_OnlyUnknownErrorIsSwallowed ==
    /\ (reb.called /\ reb.res = "ERROR_UNKNOWN") =>
            /\ pc \notin {"panicked", "exit"}
            /\ pipelines = reb.beforeAll
            /\ UsesPipelinesBeforeRebuild
    /\ (reb.called /\ reb.res \notin {"ok", "ERROR_UNKNOWN"}) => pc = "panicked"

\* after a reload that failed with ERROR_UNKNOWN a frame was submitted
C14_Witness ==
    /\ reb.called
    /\ reb.res = "ERROR_UNKNOWN"
    /\ pc = "new_events"
    /\ rec.ret = "Ok"
    /\ \E i \in DOMAIN subs : subs[i].kind = "graphics"
    /\ \E i \in DOMAIN subs : subs[i].kind = "compute"

\* capture_frame() has returned its slice
CaptureReturned == cap.called /\ cap.result.ret = "Ok"

\* C15: whatever row pitch the device reports, capture_frame returns (W, H)
\* equal to the engine's width and its height rounded up to a multiple of 2,
\* and a slice of W * H * 4 bytes whose rows are packed: a row of the image
\* takes W * 4 bytes of the slice.
C15_ReturnsPackedCaptureExtent ==
    CaptureReturned =>
        /\ cap.result.w = cap.requested[1]
        /\ cap.result.h = return_aligned(cap.requested[2], 2)
        /\ cap.result.len = cap.result.w * cap.result.h * 4
        /\ cap.result.row_pitch = cap.requested[1] * 4

\* C16: for every swapchain format the destination format of the capture has
\* the four channels R, G, B, A of one byte each, in this order.
C16_DestinationIsRGBA8 ==
    /\ Channels(screenshot_ctx.format) = <<"R", "G", "B", "A">>
    /\ TexelBytes(screenshot_ctx.format) = 4

\* C17: capture_frame reallocates the capture images exactly when the extent
\* it is called for differs from the extent of the capture before it, or of
\* construction when it is the first; odd heights included.
C17_ReallocIffExtentChanged ==
    cap.called => (cap.realloc <=> cap.requested # cap.previous)

\* C18: a reallocation frees, allocates and maps the host-visible memory
\* exactly when the new host-visible image requires more than the mapping
\* holds, and it leaves `data` pointing into the mapped memory that the
\* host-visible image is bound to and that holds the image.
C18_RemapIffMappingTooSmall ==
    (cap.called /\ cap.realloc) =>
        /\ cap.remapped <=> cap.required > cap.mapping
        /\ DataValid(screenshot_ctx, memory)
        /\ Backed(screenshot_ctx, memory)

\* C19: capture_frame returns only when the batch this call submitted has
\* completed, it leaves the fence unsignaled, and while a call waits the
\* fence is signaled only when the batch of this call has completed.
C19_ReturnsAfterOwnTransfer ==
    /\ (cap.called /\ cap.result.ret \in {"Ok", "panic"}) =>
            (cap.completed /\ ~cap.fence)
    /\ pc # "capture" => screenshot_ctx.fence \notin signaled
    /\ (pc = "capture" /\ screenshot_ctx.fence \in signaled) =>
            \A i \in DOMAIN subs : subs[i].kind # "capture"

\* a second capture has returned, each after a wait for the GPU
C19_Witness ==
    /\ pc = "setup"
    /\ cap.n = 2
    /\ CaptureReturned
    /\ cap.completed
    /\ screenshot_ctx.fence \notin signaled

\* C20: on a device that takes the two-step path and blits into optimal
\* images of the destination format, a capture returns the dimensions and the
\* slice length, and makes visible the texels, that the direct path gives for
\* the same calls on a device that blits into linear images.
C20_TwoStepEqualsDirect ==
    (/\ screenshot_ctx.blit_image # <<>>
     /\ "OPTIMAL" \in device.dst_blit
     /\ cap.called
     /\ cap.result.ret # "none") =>
        cap.result = cap.twin

\* a two-step capture after a reallocation, whose texels the host sees
C20_Witness ==
    /\ need2steps(device)
    /\ "OPTIMAL" \in device.dst_blit
    /\ screenshot_ctx.blit_image # <<>>
    /\ twin.sc.blit_image = <<>>
    /\ CaptureReturned
    /\ cap.realloc
    /\ cap.result.visible.valid
    /\ cap.result.visible.frame = cap.src
    /\ cap.result = cap.twin

\* C21: the two-step flag of construction is set exactly when the destination
\* format of the capture is a blit destination with optimal tiling and not
\* with linear tiling, and the intermediate image exists exactly when the
\* flag is set, in every state.
C21_TwoStepIffDestinationNeedsIt ==
    /\ need2steps(device) <=> device.dst_blit = {"OPTIMAL"}
    /\ screenshot_ctx.blit_image # <<>> <=> need2steps(device)

\* the part of C21 that holds: the intermediate image exists exactly when
\* the flag PilkaRender::new computed is set, reallocations included
C21_IntermediateImageIffFlag ==
    screenshot_ctx.blit_image # <<>> <=> need2steps(device)

\* C22: at most one upload of the spectrum is in flight, and update() resets
\* its command buffer and writes the staging memory only when no upload
\* submitted before is pending.
C22_OneUploadInFlight ==
    /\ Cardinality({i \in DOMAIN subs : subs[i].kind = "fft"}) <= 1
    /\ ~fft.busy

\* a second upload, submitted after the first one completed
C22_Witness ==
    /\ fft.calls = 2
    /\ fft.ret = "Ok"
    /\ fft.before # "none"
    /\ \E i \in DOMAIN subs : subs[i].kind = "fft"

\* C23: two batches that may execute at the same time on different queues
\* do not access the same image when one of them writes it.
C23_NoUnorderedAccess ==
    \A i, j \in DOMAIN subs :
        (i # j /\ subs[i].queue # subs[j].queue /\ Executable(i) /\ Executable(j))
            => Writes(subs[i]) \cap (Reads(subs[j]) \cup Writes(subs[j])) = {}

\* C24: update_fft_texture with a buffer of another length than FFT_SIZE
\* returns Ok, with the buffer's floats in the staging memory and the
\* upload submitted.
C24_WrongLengthIsUploaded ==
    (fft.calls > 0 /\ fft.data.len # FFT_SIZE) =>
        /\ fft.ret = "Ok"
        /\ fft.mapped_memory.id = fft.data.id

\* C24, amended: update_fft_texture panics exactly for a buffer of another
\* length than FFT_SIZE, and then it leaves the staging memory as it was,
\* submits nothing and leaves its fence unsignaled; a buffer of FFT_SIZE
\* floats is copied and its upload submitted.
C24_WrongLengthPanics ==
    fft.calls > 0 =>
        /\ fft.ret = "panic" <=> fft.data.len # FFT_SIZE
        /\ fft.ret = "panic" =>
                /\ fft.mapped_memory.id = fft.before
                /\ \A i \in DOMAIN subs : subs[i].kind # "fft"
                /\ fft.fence \notin signaled
        /\ fft.ret = "Ok" => fft.mapped_memory.id = fft.data.id

\* a second update that panics on a longer buffer, after one that succeeded
C24_Witness ==
    /\ fft.calls = 2
    /\ fft.data.len = FFT_SIZE + 1
    /\ fft.ret = "panic"
    /\ fft.before \in {"spectrum_a", "spectrum_b"}
    /\ pc = "panicked"

\* the groups of handles, in the order the teardown is to destroy them
GroupOrder ==
    <<"descriptor_set_layout", "descriptor_pool", "texture", "screenshot_ctx",
      "pipeline_cache", "semaphore", "framebuffer">>

GroupRank(g) == CHOOSE k \in DOMAIN GroupOrder : GroupOrder[k] = g

\* C25: the teardown destroys descriptor-set layouts, descriptor pool,
\* textures, screenshot context, pipeline cache, semaphores and framebuffers
\* in this order, every handle once, and no handle that was destroyed before.
C25_TeardownDestroysLiveHandlesOnce ==
    pc = "exit" =>
        /\ \A i, j \in DOMAIN dropped :
                i < j => GroupRank(dropped[i].group) <= GroupRank(dropped[j].group)
        /\ \A i, j \in DOMAIN dropped :
                i # j => dropped[i].handle # dropped[j].handle
        /\ \A i \in DOMAIN dropped : dropped[i].live

\* the part of C25 that holds: the order of the groups
C25_TeardownOrder ==
    pc = "exit" =>
        \A i, j \in DOMAIN dropped :
            i < j => GroupRank(dropped[i].group) <= GroupRank(dropped[j].group)

\* C26: when the fragment shader fails after the vertex shader was made,
\* make_pipeline_from_shaders destroys the vertex shader module, once, and
\* no pipeline is created or stored.
C26_FragmentFailureDestroysVertexModule ==
    (made_from.called /\ made_from.at = "frag_module") =>
        /\ made_from.created = <<"vert_module">>
        /\ made_from.destroyed = <<"vert_module">>
        /\ builds = made_from.builds
        /\ pipelines = made_from.pipelines

\* a rebuild of the second of two graphics pipelines whose fragment shader
\* fails
C26_Witness ==
    /\ made_from.called
    /\ made_from.at = "frag_module"
    /\ reb.called
    /\ reb.index = 1
    /\ Len(pipelines) = 2
    /\ made_from.destroyed = <<"vert_module">>

\* C27: after construction and after every resize() that succeeded, each of
\* the five screen-sized textures has the width and height of the engine's
\* extent and the format and usage flags it was created with, the viewport
\* is (0, height, width, -height) and the scissor covers the extent.
C27_TexturesFollowExtent ==
    pc # "panicked" =>
        /\ \A t \in TexNames :
                /\ textures[t].live
                /\ textures[t].width = extent[1]
                /\ textures[t].height = extent[2]
                /\ textures[t].format = TexFormat(t)
                /\ textures[t].usage_flags = {"TRANSFER_DST", "SAMPLED", "STORAGE"}
        /\ viewports = [x |-> 0, y |-> extent[2], width |-> extent[1],
                        height |-> 0 - extent[2]]
        /\ scissors = [x |-> 0, y |-> 0, width |-> extent[1], height |-> extent[2]]

\* a second resize that succeeded, back to the extent of construction
C27_Witness ==
    /\ pc # "panicked"
    /\ swapchain.gen = 2
    /\ extent = InitialExtent
    /\ \A t \in TexNames : textures[t].gen = 2 /\ textures[t].width = extent[1]

\* C28: the swapchain image capture_frame reads is the image the most recent
\* drawing render() acquired and presented, and its index is a valid index
\* into swapchain.images.
C28_CaptureReadsPresentedImage ==
    (cap.called /\ "present" \in rec.submitted) =>
        /\ cap.index < swapchain.n
        /\ cap.index = rec.idx

\* C29: for any collection of pipelines built by pushes, a render() call that
\* has acquired an image does not index `pipelines` out of range, submits no
\* work that waits on a semaphore nothing of the frame signals, and signals
\* the render-complete semaphore exactly once before the present waits on it.
\* The second wait on the acquire semaphore is the subject of C1 and is left
\* out here.
C29_RenderOnAnyCollection ==
    (rec.called /\ rec.acq = "ok" /\ pc \in {"new_events", "panicked"}) =>
        /\ rec.ret # "panic"
        /\ \A u \in rec.unmatched : u.sem = present_complete_semaphore
        /\ rec.graphics = 1

\* C30: after any sequence of pushes and rebuilds, failing pushes included,
\* every index stored in shader_set is smaller than pipelines.len() and is
\* the index of a pipeline the path was pushed with (a failed push having
\* left shader_set and pipelines as they were).
C30_TableIndexesRegisteredPipelines ==
    \A path \in DOMAIN shader_set :
        /\ shader_set[path] < Len(pipelines)
        /\ <<path, shader_set[path]>> \in registered.paths

\* C30 with every push successful
C30_TableAfterSuccessfulPushes ==
    ~registered.failed => C30_TableIndexesRegisteredPipelines

\* C31: after a resize() that failed part-way the engine holds no handle that
\* was already destroyed, so that a resize() called again and the teardown
\* destroy no framebuffer and no texture (sampler, image view, image, memory)
\* a second time.
C31_FailedResizeHoldsLiveHandles ==
    rec.resizeFailed =>
        /\ \A i \in DOMAIN framebuffers : framebuffers[i].live
        /\ \A t \in TexNames : textures[t].live
        /\ pc = "exit" => \A i \in DOMAIN dropped : dropped[i].live

\* C32: when the reallocation inside capture_frame fails, the extent the
\* screenshot context records is not advanced, so that the next capture_frame
\* reallocates again: no capture is submitted on an image that has no live
\* memory bound.
C32_FailedReallocKeepsExtent ==
    /\ (cap.called /\ cap.result.ret = "ERROR_OUT_OF_DEVICE_MEMORY") =>
            screenshot_ctx.extent = cap.before
    /\ pc = "capture" => screenshot_ctx.image.bound \in DOMAIN memory.live

\* C33: whenever a capture is submitted, every capture image is bound to a
\* live allocation at least as large as its memory requirement, and the slice
\* capture_frame returns ends within the mapped region `data`.
C33_CaptureMemoryHoldsImages ==
    /\ pc = "capture" =>
            \A img \in {screenshot_ctx.image} \cup
                        {screenshot_ctx.blit_image[k] : k \in DOMAIN screenshot_ctx.blit_image} :
                /\ img.bound \in DOMAIN memory.live
                /\ memory.live[img.bound] >= img.memory_requirements
    /\ cap.called => cap.result.ret # "panic"

\* C34: whenever update_fft_texture can be entered, its fence is signaled or
\* a submitted upload will signal it, also after a call that returned an
\* error after it had reset the fence; the wait at its start terminates.
C34_FftFenceSignaledOrPending ==
    pc \notin {"panicked", "exit"} =>
        \/ fft.fence \in signaled
        \/ \E i \in DOMAIN subs : subs[i].kind = "fft"

\* C35: every layout transition submitted by construction, resize, render,
\* capture_frame and update_fft_texture names as old layout UNDEFINED or the
\* layout its image has at that point of the submission order; between two
\* operations of the engine every swapchain image is presentable, and the
\* five screen-sized textures and the FFT texture are in the general layout.
C35_LayoutsFollowTransitions ==
    /\ layout.ok
    /\ pc \in {"setup", "new_events", "events"} =>
            /\ \A i \in DOMAIN layout.present : layout.present[i] = "PRESENT_SRC_KHR"
            /\ \A t \in TexNames \cup {"fft_texture"} : layout.image[t] = "GENERAL"

\* C36: in every render() call that draws, the render area of the render pass,
\* the viewport and the scissor equal the extent of the framebuffer drawn to,
\* which is the extent of the swapchain at its creation or last resize, also
\* when the window surface changed size since.
C36_RenderAreaIsFramebufferExtent ==
    (pc = "draw" /\ \E j \in DOMAIN pipelines : pipelines[j].kind = "Graphics") =>
        /\ render_area = Scissor(swapchain.extent)
        /\ viewports = Viewport(swapchain.extent)
        /\ scissors = Scissor(swapchain.extent)

\* C37: while a video is recorded, every frame sent to the recorder has the
\* width and height that the Start event of the recording announced, also
\* after render() has resized the engine itself on a stale swapchain.
C37_RecordedFramesHaveStartSize ==
    (video.recording /\ video.sent # <<0, 0>>) => video.sent = video.start

\* C38: a save_screenshot thread never reads the capture memory while a later
\* capture_frame overwrites it or after it was unmapped or freed: while the
\* thread runs, its memory stays mapped and no capture is in flight into it.
C38_ScreenshotThreadReadsStableMemory ==
    \A t \in screenshots :
        /\ t.memory \in DOMAIN memory.live
        /\ t.memory \in memory.mapped
        /\ \A i \in DOMAIN subs :
                subs[i].kind = "capture" => screenshot_ctx.data.memory # t.memory

\* C39: on every return path of make_pipeline_from_shaders, successful or
\* failing, every shader module the call has created is destroyed exactly
\* once by the time it returns.
C39_EveryModuleDestroyedOnce ==
    made_from.called =>
        /\ Len(made_from.destroyed) = Len(made_from.created)
        /\ \A k \in DOMAIN made_from.created :
                Cardinality({j \in DOMAIN made_from.destroyed :
                                made_from.destroyed[j] = made_from.created[k]}) = 1

====
